---- MODULE Spec2Model ----
(***************************************************************************)
(* Verification model of the service-catalog controller:                   *)
(*   - the rate-limited work queue and the generic worker loop             *)
(*     (pkg/controller/controller.go: Run, createWorker, worker);          *)
(*   - the instance reconciler (reconcileInstance, reconcileInstanceDelete,*)
(*     pollInstance, setInstanceCondition, updateInstanceStatus);          *)
(*   - the broker reconciler (shouldReconcileClusterServiceBroker,         *)
(*     reconcileClusterServiceBroker, updateClusterServiceBrokerCondition, *)
(*     updateClusterServiceBrokerFinalizers).                              *)
(* Specifications:                                                         *)
(*   SpecQueue     one work queue, its workers and its notifications       *)
(*   FairSpecQueue SpecQueue with the workers scheduled fairly             *)
(*   SpecRetry     SpecQueue with one key whose reconciliation may fail    *)
(*                 more than maxRetries times                              *)
(*   Spec          one service instance: its store record, the runs of     *)
(*                 the instance reconciler and of the polling worker on    *)
(*                 it, and the user deleting it                            *)
(*   SpecCondition setInstanceCondition applied to any condition list      *)
(*   SpecPoll      one instance whose asynchronous operation is polled     *)
(*                 more than maxRetries times                              *)
(*   SpecBroker    one service broker: its store record and catalog, the   *)
(*                 runs of the broker reconciler on it, the clock, and the *)
(*                 user editing and deleting it                            *)
(*   SpecRelist    shouldReconcileClusterServiceBroker applied to any      *)
(*                 broker state at any time                                *)
(*   SpecFrame     one instance and one broker reconciled side by side     *)
(***************************************************************************)
EXTENDS Integers, Sequences, FiniteSets, TLC

VARIABLES
    \* ---- work queue under test and its workers (SpecQueue) ----
    wq,          \* the rate limiting queue: queue, dirty, processing, failures, waiting, shuttingDown
    wpc,         \* worker -> "get" | "reconcile" | "done" | "exited"
    wkey,        \* worker -> the key it holds, or NoKey
    stopped,     \* the stop channel has been closed
    addsLeft,    \* notifications still to be delivered
    failsLeft,   \* reconciliation failures still to be injected
    owed,        \* key -> a notification or retry arrived that no reconciliation start has consumed yet
    spurious,    \* some reconciliation started for a key that owed none
    burst,       \* key -> notifications received while the current reconciliation of the key runs
    lastBurst,   \* key -> the value of burst when the running (or last) reconciliation started
    starts,      \* key -> reconciliations started so far
    notified,    \* key -> notifications delivered so far
    dropped,     \* key -> the worker's last result handling dropped the key (maxRetries reached)
    \* ---- one service instance and its reconciliations (Spec) ----
    inst,        \* the instance record held by the resource store
    pollingQueue, \* the polling queue
    now,         \* the wall clock
    pollFailsLeft, \* polls that may still return an error
    provOK,      \* a ProvisionInstance call returned success (synchronous or asynchronous)
    deprov,      \* the deprovisioning so far: "none", "accepted" (an asynchronous response), or "done"
                 \* (a synchronous success, or a poll of the accepted one reported succeeded or Gone)
    \* ---- one service broker and its reconciliations (SpecBroker) ----
    broker,      \* the broker record held by the resource store
    catalog      \* the service classes and service plans of the broker held by the resource store

qvars == <<wq, wpc, wkey, stopped, addsLeft, failsLeft, owed, spurious, burst, lastBurst, starts, notified, dropped>>

ivars == <<inst, pollingQueue, now, pollFailsLeft, provOK, deprov>>

bvars == <<broker, catalog>>

vars == <<wq, wpc, wkey, stopped, addsLeft, failsLeft, owed, spurious, burst, lastBurst, starts, notified, dropped,
          inst, pollingQueue, now, pollFailsLeft, provOK, deprov, broker, catalog>>

--------------------------------------------------------------------------
\* Bounds of the model
NumWorkers == 2
MaxAdds == 3
MaxFails == 1
MaxTime == 2
MaxPollFails == 1
MaxWrites == 3
MaxConds == 2

\* Program constants
maxRetries == 15

Keys == {"ns/a", "ns/b"}
NoKey == "none"
Workers == 1..NumWorkers

--------------------------------------------------------------------------
\* The rate limiting work queue (k8s.io/client-go/util/workqueue), as the
\* contract of the retry queue describes it.

NewQueue ==
    [queue |-> <<>>, dirty |-> {}, processing |-> {},
     failures |-> [k \in Keys |-> 0], waiting |-> {}, shuttingDown |-> FALSE]

InQueue(q, k) == \E i \in 1..Len(q.queue) : q.queue[i] = k

CountInQueue(q, k) == Cardinality({i \in 1..Len(q.queue) : q.queue[i] = k})

\* Add: ignored while shutting down or while the key is already dirty; a key
\* that is being processed is only marked dirty.
QAdd(q, k) ==
    IF q.shuttingDown \/ k \in q.dirty THEN q
    ELSE IF k \in q.processing THEN [q EXCEPT !.dirty = @ \cup {k}]
    ELSE [q EXCEPT !.dirty = @ \cup {k}, !.queue = Append(@, k)]

\* Get returns the head of the queue and marks it processing.
QCanGet(q) == Len(q.queue) > 0

QGetKey(q) == Head(q.queue)

QGet(q) ==
    [q EXCEPT !.queue = Tail(@),
              !.processing = @ \cup {Head(q.queue)},
              !.dirty = @ \ {Head(q.queue)}]

\* Get reports shutdown only once the queue is drained.
QQuit(q) == Len(q.queue) = 0 /\ q.shuttingDown

\* Done: the key stops being processed; if it was re-added meanwhile it is
\* queued again.
QDone(q, k) ==
    IF k \in q.dirty
    THEN [q EXCEPT !.processing = @ \ {k}, !.queue = Append(@, k)]
    ELSE [q EXCEPT !.processing = @ \ {k}]

QNumRequeues(q, k) == q.failures[k]

QForget(q, k) == [q EXCEPT !.failures[k] = 0]

\* AddRateLimited: the limiter counts one more failure and the key is added
\* after the backoff delay (the delay itself is not modelled: the timer may
\* fire at any later moment).
QAddRateLimited(q, k) ==
    IF q.shuttingDown THEN [q EXCEPT !.failures[k] = @ + 1]
    ELSE [q EXCEPT !.failures[k] = @ + 1, !.waiting = @ \cup {k}]

\* The backoff timer of a key fires: the key is added.
QTimerFire(q, k) == QAdd([q EXCEPT !.waiting = @ \ {k}], k)

QShutDown(q) == [q EXCEPT !.shuttingDown = TRUE]

--------------------------------------------------------------------------
\* The worker loop (controller.go, worker)

\* Lines 225-240: what the worker does with the reconciler's result.
HandleResultOffByOne(q, k, err, forgetAfterSuccess) ==
    IF ~err THEN (IF forgetAfterSuccess THEN QForget(q, k) ELSE q)
    ELSE IF QNumRequeues(q, k) <= maxRetries THEN QAddRateLimited(q, k)
    ELSE QForget(q, k)

HandleResult(q, k, err, forgetAfterSuccess) ==
    IF ~err THEN (IF forgetAfterSuccess THEN QForget(q, k) ELSE q)
    ELSE IF QNumRequeues(q, k) < maxRetries THEN QAddRateLimited(q, k)
    ELSE QForget(q, k)

\* Whether the result handling drops the key.
Drops(q, k, err) == err /\ ~(QNumRequeues(q, k) < maxRetries)

--------------------------------------------------------------------------
\* The service instance: data

FinalizerServiceCatalog == "kubernetes-incubator/service-catalog"

InstanceKey == "ns/a"

ConditionTrue == "True"
ConditionFalse == "False"
ConditionUnknown == "Unknown"
InstanceConditionReady == "Ready"
InstanceConditionFailed == "Failed"

errorWithParameters == "ErrorWithParameters"
errorNonexistentServiceClassReason == "ReferencesNonexistentServiceClass"
errorNonexistentServicePlanReason == "ReferencesNonexistentServicePlan"
errorNonexistentServiceBrokerReason == "ReferencesNonexistentBroker"
errorAuthCredentialsReason == "ErrorGettingAuthCredentials"
errorFindingNamespaceInstanceReason == "ErrorFindingNamespaceForInstance"
errorProvisionCallFailedReason == "ProvisionCallFailed"
errorErrorCallingProvisionReason == "ErrorCallingProvision"
errorDeprovisionCalledReason == "DeprovisionCallFailed"
errorPollingLastOperationReason == "ErrorPollingLastOperation"
successDeprovisionReason == "DeprovisionedSuccessfully"
successDeprovisionMessage == "The instance was deprovisioned successfully"
successProvisionReason == "ProvisionedSuccessfully"
successProvisionMessage == "The instance was provisioned successfully"
asyncProvisioningReason == "Provisioning"
asyncProvisioningMessage == "The instance is being provisioned asynchronously"
asyncDeprovisioningReason == "Deprovisioning"
asyncDeprovisioningMessage == "The instance is being deprovisioned asynchronously"

\* A nil string pointer (LastOperation, DashboardURL, an operation key, a
\* description).
Nil == "nil"

\* A nil checksum.
NilChecksum == <<>>

\* The parameters of a spec: valid JSON or malformed JSON (a spec without
\* parameters is handled as one whose parameters are valid).
ParameterKinds == {"valid", "malformed"}

\* checksum.InstanceSpecChecksum: the digest of the spec (revision and
\* parameters); distinct specs have distinct digests.
InstanceSpecChecksum(spec) == <<spec.rev, spec.parameters>>

\* The instance as the store creates it: the service-catalog finalizer is
\* set, the status is empty.
NewInstance(parameters, finalizers) ==
    [exists |-> TRUE,
     spec |-> [rev |-> 1, parameters |-> parameters],
     deleting |-> FALSE,
     finalizers |-> finalizers,
     conditions |-> <<>>,
     checksum |-> NilChecksum,
     async |-> FALSE,
     lastOperation |-> Nil,
     dashboardURL |-> Nil]

HasCondition(instance, type, status) ==
    \E i \in 1..Len(instance.conditions) :
        instance.conditions[i].type = type /\ instance.conditions[i].status = status

\* isInstanceFailed counting a Failed condition only on an instance that was
\* never provisioned.
isInstanceFailedUnprovisioned(instance) ==
    HasCondition(instance, InstanceConditionFailed, ConditionTrue)
        /\ instance.checksum = NilChecksum

\* isInstanceFailed never reporting a failure.
isInstanceFailedNever(instance) == FALSE

\* isInstanceFailed
isInstanceFailed(instance) == HasCondition(instance, InstanceConditionFailed, ConditionTrue)

IndexOfType(conds, type) ==
    IF \E i \in 1..Len(conds) : conds[i].type = type
    THEN CHOOSE i \in 1..Len(conds) :
            conds[i].type = type /\ \A j \in 1..(i - 1) : conds[j].type # type
    ELSE 0

\* setInstanceConditionInternal setting LastTransitionTime on every call.
setInstanceConditionInternalAlwaysNow(toUpdate, conditionType, status, reason, message, t) ==
    LET conds == toUpdate.conditions
        i == IndexOfType(conds, conditionType)
        newCondition ==
            [type |-> conditionType, status |-> status, reason |-> reason,
             message |-> message, lastTransitionTime |-> t]
    IN  IF i # 0
        THEN [toUpdate EXCEPT !.conditions[i] = newCondition]
        ELSE [toUpdate EXCEPT !.conditions = Append(@, newCondition)]

\* setInstanceConditionInternal replacing an existing condition by removing
\* it and appending the new one.
setInstanceConditionInternalMovedToEnd(toUpdate, conditionType, status, reason, message, t) ==
    LET conds == toUpdate.conditions
        i == IndexOfType(conds, conditionType)
        newCondition(ltt) ==
            [type |-> conditionType, status |-> status, reason |-> reason,
             message |-> message, lastTransitionTime |-> ltt]
    IN  IF i # 0
        THEN [toUpdate EXCEPT !.conditions =
                Append(SubSeq(conds, 1, i - 1) \o SubSeq(conds, i + 1, Len(conds)),
                       newCondition(IF conds[i].status # status THEN t
                                    ELSE conds[i].lastTransitionTime))]
        ELSE [toUpdate EXCEPT !.conditions = Append(@, newCondition(t))]

\* setInstanceConditionInternal
setInstanceConditionInternal(toUpdate, conditionType, status, reason, message, t) ==
    LET conds == toUpdate.conditions
        i == IndexOfType(conds, conditionType)
        newCondition(ltt) ==
            [type |-> conditionType, status |-> status, reason |-> reason,
             message |-> message, lastTransitionTime |-> ltt]
    IN  IF Len(conds) = 0
        THEN [toUpdate EXCEPT !.conditions = <<newCondition(t)>>]
        ELSE IF i # 0
        THEN [toUpdate EXCEPT !.conditions[i] =
                newCondition(IF conds[i].status # status THEN t
                             ELSE conds[i].lastTransitionTime)]
        ELSE [toUpdate EXCEPT !.conditions = Append(@, newCondition(t))]

\* The store's status update: the submitted status and finalizers replace the
\* stored ones, the spec and the deletion timestamp are kept, and the store
\* records the checksum of the spec when the submitted Ready condition is True.
StoreUpdateStatus(stored, obj) ==
    [stored EXCEPT
        !.conditions = obj.conditions,
        !.async = obj.async,
        !.lastOperation = obj.lastOperation,
        !.dashboardURL = obj.dashboardURL,
        !.finalizers = obj.finalizers,
        !.checksum = IF HasCondition(obj, InstanceConditionReady, ConditionTrue)
                     THEN InstanceSpecChecksum(stored.spec)
                     ELSE stored.checksum]

--------------------------------------------------------------------------
\* The inputs of one handler run: what the collaborators answer.

\* The outcome of the lookups before the broker call.
Lookups == {"ok", "noClass", "noPlan", "noBroker", "authErr", "clientErr", "nsErr"}

\* The broker's reaction to the call the handler makes.
Reactions == {"r1", "r2", "r3", "r4", "r5", "r6", "r7", "r8"}

\* ProvisionInstance: synchronous or asynchronous success (with or without a
\* dashboard URL and an operation key), an HTTP error, or another error.
ProvisionResponse(r) ==
    CASE r = "r1" -> [kind |-> "sync", operationKey |-> Nil, dashboardURL |-> Nil]
      [] r = "r2" -> [kind |-> "sync", operationKey |-> Nil, dashboardURL |-> "https://d.example"]
      [] r = "r3" -> [kind |-> "async", operationKey |-> Nil, dashboardURL |-> Nil]
      [] r = "r4" -> [kind |-> "async", operationKey |-> "op1", dashboardURL |-> Nil]
      [] r = "r5" -> [kind |-> "httpError", operationKey |-> Nil, dashboardURL |-> Nil]
      [] r = "r6" -> [kind |-> "error", operationKey |-> Nil, dashboardURL |-> Nil]
      [] r = "r7" -> [kind |-> "async", operationKey |-> "op1", dashboardURL |-> "https://d.example"]
      [] r = "r8" -> [kind |-> "async", operationKey |-> "", dashboardURL |-> ""]

DeprovisionResponse(r) ==
    CASE r \in {"r1", "r2"} -> [kind |-> "sync", operationKey |-> Nil]
      [] r = "r3" -> [kind |-> "async", operationKey |-> Nil]
      [] r \in {"r4", "r7"} -> [kind |-> "async", operationKey |-> "op1"]
      [] r = "r5" -> [kind |-> "httpError", operationKey |-> Nil]
      [] r = "r6" -> [kind |-> "error", operationKey |-> Nil]
      [] r = "r8" -> [kind |-> "async", operationKey |-> ""]

\* PollLastOperation: a state (with or without a description), HTTP 410 Gone,
\* another HTTP error, or another error.
PollResponse(r) ==
    CASE r = "r1" -> [kind |-> "succeeded", description |-> Nil]
      [] r = "r2" -> [kind |-> "failed", description |-> Nil]
      [] r = "r3" -> [kind |-> "in progress", description |-> Nil]
      [] r = "r4" -> [kind |-> "in progress", description |-> "working"]
      [] r = "r5" -> [kind |-> "httpError", description |-> Nil]
      [] r = "r6" -> [kind |-> "error", description |-> Nil]
      [] r = "r7" -> [kind |-> "gone", description |-> Nil]
      [] r = "r8" -> [kind |-> "invalid", description |-> Nil]

\* failedWrite: which write of the run the store rejects (0: none; a run
\* makes at most MaxWrites writes). A run whose lookups fail makes at most
\* one write and no broker call.
HandlerInputs ==
    {in \in [lookup : Lookups, reaction : Reactions, failedWrite : 0..MaxWrites] :
        in.lookup # "ok" => (in.reaction = "r1" /\ in.failedWrite <= 1)}

--------------------------------------------------------------------------
\* A handler run: the store record as the run changes it, the run's log,
\* its return value, and the object the handler was given (the copy of the
\* record in the shared cache) as the run leaves it.

NewRun(stored) ==
    [st |-> stored, ops |-> <<>>, ret |-> "nil", polled |-> FALSE, cached |-> stored]

Entry(op, what, res, ok, obj) == [op |-> op, what |-> what, res |-> res, ok |-> ok, obj |-> obj]

Log(c, e) == [c EXCEPT !.ops = Append(@, e)]

Return(c, r) == [c EXCEPT !.ret = r]

\* c.recorder.Event
Event(c, eventType, reason) == Log(c, Entry("event", reason, eventType, TRUE, Nil))

Lookup(c, what, found) == Log(c, Entry("lookup", what, "", found, Nil))

BrokerCall(c, what, res) == Log(c, Entry("call", what, res, TRUE, Nil))

NumWrites(c) == Cardinality({i \in 1..Len(c.ops) : c.ops[i].op = "write"})

\* Whether the store accepts the next write of the run.
NextWriteOK(c, in) == in.failedWrite # NumWrites(c) + 1

\* Whether the last write of the run failed.
WriteFailed(c) == ~c.ops[Len(c.ops)].ok

\* updateInstanceStatus: UpdateStatus(toUpdate) against the store.
updateInstanceStatus(c, toUpdate, in) ==
    IF NextWriteOK(c, in)
    THEN LET new == StoreUpdateStatus(c.st, toUpdate)
         IN  [c EXCEPT !.st = new,
                       !.ops = Append(@, Entry("write", "UpdateStatus", "", TRUE, new))]
    ELSE Log(c, Entry("write", "UpdateStatus", "", FALSE, toUpdate))

\* updateInstanceCondition without the copy of line 773: the condition is
\* set on the given instance itself, which is then submitted.
updateInstanceConditionInPlace(c, instance, conditionType, status, reason, message, in, t) ==
    LET toUpdate == setInstanceConditionInternal(instance, conditionType, status,
                                                 reason, message, t)
    IN  updateInstanceStatus([c EXCEPT !.cached = toUpdate], toUpdate, in)

\* updateInstanceCondition: the condition is set on a copy of the given
\* instance and the copy is submitted.
updateInstanceCondition(c, instance, conditionType, status, reason, message, in, t) ==
    updateInstanceStatus(c,
        setInstanceConditionInternal(instance, conditionType, status, reason, message, t), in)

\* updateInstanceFinalizers submitting the latest version as it is, the
\* finalizers not replaced.
updateInstanceFinalizersKept(c, finalizers, in) ==
    LET c1 == Log(c, Entry("get", "Get", "", TRUE, c.st))
    IN  updateInstanceStatus(c1, c1.st, in)

\* updateInstanceFinalizers without the read of line 798: the finalizers are
\* replaced on the object the handler was given.
updateInstanceFinalizersUnread(c, finalizers, in) ==
    updateInstanceStatus(c, [c.cached EXCEPT !.finalizers = finalizers], in)

\* updateInstanceFinalizers: the latest version is read from the store, its
\* finalizers are replaced and it is submitted. (A failed read is only
\* logged by the code; the submission that follows it then fails, which is
\* the failed write here.)
updateInstanceFinalizers(c, finalizers, in) ==
    LET c1 == Log(c, Entry("get", "Get", "", TRUE, c.st))
    IN  updateInstanceStatus(c1, [c1.st EXCEPT !.finalizers = finalizers], in)


--------------------------------------------------------------------------
\* The broker record

ServiceBrokerConditionReady == "Ready"
ServiceBrokerConditionFailed == "Failed"

ServiceBrokerRelistBehaviorDuration == "Duration"
ServiceBrokerRelistBehaviorManual == "Manual"

\* A nil time or duration pointer (OperationStartTime, RelistDuration).
NilTime == -1

\* The relist settings of a broker spec: the behavior and the duration
\* (a nil *metav1.Duration, or a number of clock ticks).
RelistSettings ==
    {[relistBehavior |-> ServiceBrokerRelistBehaviorDuration, relistDuration |-> 1],
     [relistBehavior |-> ServiceBrokerRelistBehaviorDuration, relistDuration |-> NilTime],
     [relistBehavior |-> ServiceBrokerRelistBehaviorManual, relistDuration |-> NilTime]}

\* The broker as the store creates it: generation 1, the service-catalog
\* finalizer set, the status empty.
NewBroker(settings) ==
    [exists |-> TRUE,
     spec |-> settings,
     generation |-> 1,
     deleting |-> FALSE,
     finalizers |-> {FinalizerServiceCatalog},
     conditions |-> <<>>,
     reconciledGeneration |-> 0,
     operationStartTime |-> NilTime]

\* broker.Name of the broker of this model, and the name of another broker
\* of the store.
BrokerName == "broker1"
OtherBrokerName == "broker2"

\* The service classes and service plans of the store, as the listers show
\* them: a class has a name, Spec.ClusterServiceBrokerName (owner),
\* Spec.ExternalID and Spec.Description; a plan has Spec.ServiceClassRef.Name
\* (class) as well. No two classes and no two plans have the same name.

\* No service class and no service plan is stored.
NoCatalog == [classes |-> {}, plans |-> {}]

\* The broker side is idle in the specifications of the work queue and of
\* the instance.
BrokerIdle ==
    /\ broker = NewBroker([relistBehavior |-> ServiceBrokerRelistBehaviorDuration,
                           relistDuration |-> 1])
    /\ catalog = NoCatalog

\* The instance side is idle in the specifications of the work queue.
InstanceIdle ==
    /\ inst = NewInstance("valid", {FinalizerServiceCatalog})
    /\ pollingQueue = NewQueue
    /\ now = 1
    /\ pollFailsLeft = MaxPollFails
    /\ provOK = FALSE
    /\ deprov = "none"

--------------------------------------------------------------------------
\* The work queue and its workers

\* A reconciliation of key k is running on some worker.
Running(k) == \E w \in Workers : wpc[w] = "reconcile" /\ wkey[w] = k

\* Some worker holds key k (reconciling it, or about to mark it done).
Held(k) == \E w \in Workers : wkey[w] = k

QueueInit ==
    /\ wq = NewQueue
    /\ wpc = [w \in Workers |-> "get"]
    /\ wkey = [w \in Workers |-> NoKey]
    /\ stopped = FALSE
    /\ addsLeft = MaxAdds
    /\ failsLeft = MaxFails
    /\ owed = [k \in Keys |-> FALSE]
    /\ spurious = FALSE
    /\ burst = [k \in Keys |-> 0]
    /\ lastBurst = [k \in Keys |-> 0]
    /\ starts = [k \in Keys |-> 0]
    /\ notified = [k \in Keys |-> 0]
    /\ dropped = [k \in Keys |-> FALSE]
    /\ InstanceIdle
    /\ BrokerIdle

\* instanceAdd / instanceUpdate: a notification adds the key to the queue.
instanceAdd(k) ==
    /\ addsLeft > 0
    /\ addsLeft' = addsLeft - 1
    /\ wq' = QAdd(wq, k)
    /\ owed' = [owed EXCEPT ![k] = @ \/ ~wq.shuttingDown]
    /\ notified' = [notified EXCEPT ![k] = @ + 1]
    /\ burst' = [burst EXCEPT ![k] = IF Running(k) THEN @ + 1 ELSE @]
    /\ dropped' = [dropped EXCEPT ![k] = FALSE]
    /\ UNCHANGED <<wpc, wkey, stopped, failsLeft, spurious, lastBurst, starts>>
    /\ UNCHANGED <<ivars, bvars>>

\* The delayed add of a rate limited key.
TimerFire(k) ==
    /\ k \in wq.waiting
    /\ wq' = QTimerFire(wq, k)
    /\ owed' = [owed EXCEPT ![k] = @ \/ ~wq.shuttingDown]
    /\ UNCHANGED <<wpc, wkey, stopped, addsLeft, failsLeft, spurious, burst, lastBurst, starts, notified, dropped>>
    /\ UNCHANGED <<ivars, bvars>>

\* Line 218 with the deferred Done of line 222 run at once instead of at the
\* end of the iteration.
WorkerGetDoneEarly(w) ==
    /\ wpc[w] = "get"
    /\ QCanGet(wq)
    /\ wq' = QDone(QGet(wq), QGetKey(wq))
    /\ wkey' = [wkey EXCEPT ![w] = QGetKey(wq)]
    /\ wpc' = [wpc EXCEPT ![w] = "reconcile"]
    /\ spurious' = (spurious \/ ~owed[QGetKey(wq)])
    /\ owed' = [owed EXCEPT ![QGetKey(wq)] = FALSE]
    /\ starts' = [starts EXCEPT ![QGetKey(wq)] = @ + 1]
    /\ lastBurst' = [lastBurst EXCEPT ![QGetKey(wq)] = burst[QGetKey(wq)]]
    /\ burst' = [burst EXCEPT ![QGetKey(wq)] = 0]
    /\ dropped' = [dropped EXCEPT ![QGetKey(wq)] = FALSE]
    /\ UNCHANGED <<stopped, addsLeft, failsLeft, notified>>
    /\ UNCHANGED <<ivars, bvars>>

\* Lines 218-222: the worker takes the next key; the reconciler starts.
WorkerGet(w) ==
    /\ wpc[w] = "get"
    /\ QCanGet(wq)
    /\ wq' = QGet(wq)
    /\ wkey' = [wkey EXCEPT ![w] = QGetKey(wq)]
    /\ wpc' = [wpc EXCEPT ![w] = "reconcile"]
    /\ spurious' = (spurious \/ ~owed[QGetKey(wq)])
    /\ owed' = [owed EXCEPT ![QGetKey(wq)] = FALSE]
    /\ starts' = [starts EXCEPT ![QGetKey(wq)] = @ + 1]
    /\ lastBurst' = [lastBurst EXCEPT ![QGetKey(wq)] = burst[QGetKey(wq)]]
    /\ burst' = [burst EXCEPT ![QGetKey(wq)] = 0]
    /\ dropped' = [dropped EXCEPT ![QGetKey(wq)] = FALSE]
    /\ UNCHANGED <<stopped, addsLeft, failsLeft, notified>>
    /\ UNCHANGED <<ivars, bvars>>

\* Lines 218-221: Get reports shutdown, the worker leaves its loop.
WorkerQuit(w) ==
    /\ wpc[w] = "get"
    /\ QQuit(wq)
    /\ wpc' = [wpc EXCEPT ![w] = "exited"]
    /\ UNCHANGED <<wq, wkey, stopped, addsLeft, failsLeft, owed, spurious, burst, lastBurst, starts, notified, dropped>>
    /\ UNCHANGED <<ivars, bvars>>

\* Lines 224-240: the reconciler returns (nil or an error) and the worker
\* forgets, re-adds with rate limiting, or drops the key.
WorkerReconciled(w, err) ==
    /\ wpc[w] = "reconcile"
    /\ err => failsLeft > 0
    /\ failsLeft' = IF err THEN failsLeft - 1 ELSE failsLeft
    /\ wq' = HandleResult(wq, wkey[w], err, TRUE)
    /\ dropped' = [dropped EXCEPT ![wkey[w]] = Drops(wq, wkey[w], err)]
    /\ wpc' = [wpc EXCEPT ![w] = "done"]
    /\ UNCHANGED <<wkey, stopped, addsLeft, owed, spurious, burst, lastBurst, starts, notified>>
    /\ UNCHANGED <<ivars, bvars>>

\* Line 222 left out: the worker never marks the key done.
WorkerDoneMissing(w) ==
    /\ wpc[w] = "done"
    /\ wkey' = [wkey EXCEPT ![w] = NoKey]
    /\ wpc' = [wpc EXCEPT ![w] = "get"]
    /\ UNCHANGED <<wq, stopped, addsLeft, failsLeft, owed, spurious, burst, lastBurst, starts, notified, dropped>>
    /\ UNCHANGED <<ivars, bvars>>

\* Line 222 (deferred): queue.Done(key), then the next iteration.
WorkerDone(w) ==
    /\ wpc[w] = "done"
    /\ wq' = QDone(wq, wkey[w])
    /\ wkey' = [wkey EXCEPT ![w] = NoKey]
    /\ wpc' = [wpc EXCEPT ![w] = "get"]
    /\ UNCHANGED <<stopped, addsLeft, failsLeft, owed, spurious, burst, lastBurst, starts, notified, dropped>>
    /\ UNCHANGED <<ivars, bvars>>

\* Run, lines 184-192: the stop channel is closed and the queue shut down.
Stop ==
    /\ ~stopped
    /\ stopped' = TRUE
    /\ wq' = QShutDown(wq)
    /\ UNCHANGED <<wpc, wkey, addsLeft, failsLeft, owed, spurious, burst, lastBurst, starts, notified, dropped>>
    /\ UNCHANGED <<ivars, bvars>>

QueueNext ==
    \/ \E k \in Keys : instanceAdd(k)
    \/ \E k \in Keys : TimerFire(k)
    \/ \E w \in Workers : WorkerGet(w)
    \/ \E w \in Workers : WorkerQuit(w)
    \/ \E w \in Workers, err \in BOOLEAN : WorkerReconciled(w, err)
    \/ \E w \in Workers : WorkerDone(w)
    \/ Stop

SpecQueue == QueueInit /\ [][QueueNext]_vars

\* The same queue with one key whose reconciliation may fail every time.
RetryKeys == {"ns/a"}

RetryFails == maxRetries + 2

RetryInit ==
    /\ wq = NewQueue
    /\ wpc = [w \in Workers |-> "get"]
    /\ wkey = [w \in Workers |-> NoKey]
    /\ stopped = FALSE
    /\ addsLeft = MaxAdds
    /\ failsLeft = RetryFails
    /\ owed = [k \in Keys |-> FALSE]
    /\ spurious = FALSE
    /\ burst = [k \in Keys |-> 0]
    /\ lastBurst = [k \in Keys |-> 0]
    /\ starts = [k \in Keys |-> 0]
    /\ notified = [k \in Keys |-> 0]
    /\ dropped = [k \in Keys |-> FALSE]
    /\ InstanceIdle
    /\ BrokerIdle

RetryNext ==
    \/ \E k \in RetryKeys : instanceAdd(k)
    \/ \E k \in RetryKeys : TimerFire(k)
    \/ \E w \in Workers : WorkerGet(w)
    \/ \E w \in Workers : WorkerQuit(w)
    \/ \E w \in Workers, err \in BOOLEAN : WorkerReconciled(w, err)
    \/ \E w \in Workers : WorkerDone(w)
    \/ Stop

SpecRetry == RetryInit /\ [][RetryNext]_vars

\* Goroutines are scheduled and a reconciliation returns: every worker step
\* and every backoff timer that stays enabled eventually happens.
QueueFairness ==
    /\ \A w \in Workers : WF_vars(WorkerGet(w))
    /\ \A w \in Workers : WF_vars(WorkerQuit(w))
    /\ \A w \in Workers : WF_vars(\E err \in BOOLEAN : WorkerReconciled(w, err))
    /\ \A w \in Workers : WF_vars(WorkerReconciled(w, FALSE))
    /\ \A w \in Workers : WF_vars(WorkerDone(w))
    /\ \A k \in Keys : WF_vars(TimerFire(k))

FairSpecQueue == QueueInit /\ [][QueueNext]_vars /\ QueueFairness

--------------------------------------------------------------------------
\* The instance reconciler

\* getServiceClassPlanAndServiceBroker looking up the class, the plan and
\* the broker before it reports the first one that is missing.
getServiceClassPlanAndServiceBrokerEager(c, instance, in, t) ==
    LET c3 == Lookup(Lookup(Lookup(c, "ServiceClass", in.lookup # "noClass"),
                            "ServicePlan", in.lookup # "noPlan"),
                     "ServiceBroker", in.lookup # "noBroker")
        reason == CASE in.lookup = "noClass" -> errorNonexistentServiceClassReason
                    [] in.lookup = "noPlan" -> errorNonexistentServicePlanReason
                    [] in.lookup = "noBroker" -> errorNonexistentServiceBrokerReason
                    [] OTHER -> errorAuthCredentialsReason
    IN  IF in.lookup \in {"noClass", "noPlan", "noBroker", "authErr"}
        THEN Return(Event(updateInstanceCondition(c3, instance, InstanceConditionReady,
                            ConditionFalse, reason, reason, in, t),
                          "Warning", reason), "err")
        ELSE IF in.lookup = "clientErr" THEN Return(c3, "err")
        ELSE c3

\* getServiceClassPlanAndServiceBroker: the class, the plan and the broker are
\* looked up in this order and the broker client is built; a failed lookup
\* sets Ready=False (the write's error is not looked at), emits a warning
\* event and returns the error.
getServiceClassPlanAndServiceBroker(c, instance, in, t) ==
    LET fail(c0, reason, eventReason) ==
            Return(Event(updateInstanceCondition(c0, instance, InstanceConditionReady,
                            ConditionFalse, reason, reason, in, t),
                         "Warning", eventReason), "err")
        c1 == Lookup(c, "ServiceClass", in.lookup # "noClass")
        c2 == Lookup(c1, "ServicePlan", in.lookup # "noPlan")
        c3 == Lookup(c2, "ServiceBroker", in.lookup # "noBroker")
    IN  IF in.lookup = "noClass"
        THEN fail(c1, errorNonexistentServiceClassReason, errorNonexistentServiceClassReason)
        ELSE IF in.lookup = "noPlan"
        THEN fail(c2, "ReferencesNonexistentServicePlan", errorNonexistentServicePlanReason)
        ELSE IF in.lookup = "noBroker"
        THEN fail(c3, errorNonexistentServiceBrokerReason, errorNonexistentServiceBrokerReason)
        ELSE IF in.lookup = "authErr"
        THEN fail(c3, errorAuthCredentialsReason, errorAuthCredentialsReason)
        ELSE IF in.lookup = "clientErr"
        THEN Return(c3, "err")
        ELSE c3

\* pollInstance, lines 570-602, reporting an operation in progress as done.
pollInProgressDone(c, instance, response, in, t) ==
    IF response.description # Nil
    THEN LET toUpdate == [instance EXCEPT !.async = TRUE]
             reason == IF instance.deleting THEN asyncDeprovisioningMessage
                       ELSE asyncProvisioningReason
             message == <<asyncProvisioningMessage, response.description>>
         IN  Return(updateInstanceCondition(c, toUpdate, InstanceConditionReady,
                       ConditionFalse, reason, message, in, t), "nil")
    ELSE Return(c, "nil")

\* pollInstance, lines 570-602: the operation is still in progress. A
\* description in the response refreshes the Ready=False condition; the
\* error returned makes the worker poll again.
pollInProgress(c, instance, response, in, t) ==
    IF response.description # Nil
    THEN LET toUpdate == [instance EXCEPT !.async = TRUE]
             reason == IF instance.deleting THEN asyncDeprovisioningMessage
                       ELSE asyncProvisioningReason
             message == <<asyncProvisioningMessage, response.description>>
         IN  Return(updateInstanceCondition(c, toUpdate, InstanceConditionReady,
                       ConditionFalse, reason, message, in, t), "err")
    ELSE Return(c, "err")

\* pollInstance, lines 643-672, with a failed deprovisioning reported like a
\* failed provisioning.
pollFailedAsProvision(c, instance, in, t) ==
    LET toUpdate == [instance EXCEPT !.async = FALSE]
        c2 == updateInstanceCondition(c, toUpdate, InstanceConditionReady, ConditionFalse,
                  errorProvisionCallFailedReason, errorProvisionCallFailedReason, in, t)
    IN  Return(Event(c2, "Warning", errorDeprovisionCalledReason), "nil")

\* pollInstance, lines 643-672: the operation failed. The operation is no
\* longer in progress; Ready is False for a provisioning and Unknown for a
\* deprovisioning (the write's error is not looked at).
pollFailed(c, instance, in, t) ==
    LET toUpdate == [instance EXCEPT !.async = FALSE]
        cond == IF instance.deleting THEN ConditionUnknown ELSE ConditionFalse
        reason == IF instance.deleting THEN errorDeprovisionCalledReason
                  ELSE errorProvisionCallFailedReason
        c2 == updateInstanceCondition(c, toUpdate, InstanceConditionReady,
                   cond, reason, reason, in, t)
    IN  Return(Event(c2, "Warning", errorDeprovisionCalledReason), "nil")

\* pollInstance, lines 546-564, with the operation marked as no longer in
\* progress when the poll call fails.
pollCallFailedOperationEnded(c, instance, in, t) ==
    LET c2 == updateInstanceStatus(c, [instance EXCEPT !.async = FALSE], in)
    IN  Return(Event(c2, "Warning", errorPollingLastOperationReason), "err")

\* pollInstance, lines 546-564: the poll call failed. A warning event is
\* recorded and the error is returned, so that the poll is repeated.
pollCallFailed(c, instance, in, t) ==
    Return(Event(c, "Warning", errorPollingLastOperationReason), "err")

\* pollInstance
pollInstance(c, instance, in, t) ==
    LET deleting == instance.deleting
        response == PollResponse(in.reaction)
        c1 == BrokerCall(c, "PollLastOperation", response.kind)
        withoutToken(toUpdate) == toUpdate.finalizers \ {FinalizerServiceCatalog}
    IN  IF response.kind \in {"gone", "httpError", "error"}
        THEN IF response.kind = "gone" /\ deleting
             THEN LET toUpdate == [instance EXCEPT !.async = FALSE]
                      c2 == updateInstanceCondition(c1, toUpdate, InstanceConditionReady,
                                ConditionFalse, successDeprovisionReason,
                                successDeprovisionMessage, in, t)
                      c3 == IF FinalizerServiceCatalog \in toUpdate.finalizers
                            THEN updateInstanceFinalizers(c2, withoutToken(toUpdate), in)
                            ELSE c2
                  IN  Return(Event(c3, "Normal", successDeprovisionReason), "nil")
             ELSE pollCallFailed(c1, instance, in, t)
        ELSE IF response.kind = "in progress"
        THEN pollInProgress(c1, instance, response, in, t)
        ELSE IF response.kind = "succeeded"
        THEN LET toUpdate == [instance EXCEPT !.async = FALSE]
             IN  IF deleting
                 THEN LET c2 == updateInstanceCondition(c1, toUpdate, InstanceConditionReady,
                                    ConditionFalse, successDeprovisionReason,
                                    successDeprovisionMessage, in, t)
                          c3 == IF FinalizerServiceCatalog \in toUpdate.finalizers
                                THEN updateInstanceFinalizers(c2, withoutToken(toUpdate), in)
                                ELSE c2
                      IN  IF WriteFailed(c2) THEN Return(c2, "err")
                          ELSE Return(Event(c3, "Normal", successDeprovisionReason), "nil")
                 ELSE Return(updateInstanceCondition(c1, toUpdate, InstanceConditionReady,
                                ConditionTrue, successProvisionReason,
                                successProvisionMessage, in, t), "nil")
        ELSE IF response.kind = "failed" THEN pollFailed(c1, instance, in, t)
        ELSE Return(c1, "err")

\* pollInstanceInternal
pollInstanceInternal(c, instance, in, t) ==
    LET c1 == getServiceClassPlanAndServiceBroker(c, instance, in, t)
    IN  IF c1.ret = "err" THEN c1 ELSE pollInstance(c1, instance, in, t)

\* reconcileInstanceDelete, lines 152-157 and 172-177, setting the Failed
\* condition as well.
deprovisionCallFailedForGood(toUpdate, t) ==
    setInstanceConditionInternal(
        setInstanceConditionInternal(toUpdate, InstanceConditionFailed, ConditionTrue,
            errorDeprovisionCalledReason, errorDeprovisionCalledReason, t),
        InstanceConditionReady, ConditionUnknown,
        errorDeprovisionCalledReason, errorDeprovisionCalledReason, t)

\* reconcileInstanceDelete, lines 152-157 and 172-177: the status after the
\* deprovision call failed, with an HTTP error or another error:
\* Ready=Unknown, to be retried.
deprovisionCallFailed(toUpdate, t) ==
    setInstanceConditionInternal(toUpdate, InstanceConditionReady, ConditionUnknown,
        errorDeprovisionCalledReason, errorDeprovisionCalledReason, t)

\* reconcileInstanceDelete
reconcileInstanceDelete(c, instance, in, t) ==
    LET finalizers == instance.finalizers \ {FinalizerServiceCatalog}
        clearFinalizer(c0) ==
            LET c9 == updateInstanceFinalizers(c0, finalizers, in)
            IN  Return(c9, IF WriteFailed(c9) THEN "err" ELSE "nil")
    IN  IF ~instance.deleting THEN Return(c, "nil")
        ELSE IF FinalizerServiceCatalog \notin instance.finalizers THEN Return(c, "nil")
        ELSE IF ~instance.async /\ instance.checksum = NilChecksum THEN clearFinalizer(c)
        ELSE
        LET c1 == getServiceClassPlanAndServiceBroker(c, instance, in, t)
            response == DeprovisionResponse(in.reaction)
            c2 == BrokerCall(c1, "DeprovisionInstance", response.kind)
            \* the call failed
            c3 == Event(updateInstanceStatus(c2, deprovisionCallFailed(instance, t), in),
                        "Warning", errorDeprovisionCalledReason)
            \* an asynchronous response
            accepted == setInstanceConditionInternal(
                          [instance EXCEPT
                              !.lastOperation =
                                  IF response.operationKey \notin {Nil, ""}
                                  THEN response.operationKey ELSE @,
                              !.async = TRUE],
                          InstanceConditionReady, ConditionFalse,
                          asyncDeprovisioningReason, asyncDeprovisioningMessage, t)
            c4 == updateInstanceStatus(c2, accepted, in)
            \* "fall through": the success condition, then the finalizer
            afterCall == IF response.kind = "async" THEN c4 ELSE c2
            toUpdate == IF response.kind = "async" THEN accepted ELSE instance
            succeeded == setInstanceConditionInternal(toUpdate, InstanceConditionReady,
                            ConditionFalse, successDeprovisionReason,
                            successDeprovisionMessage, t)
            c5 == updateInstanceStatus(afterCall, succeeded, in)
            c6 == Event(c5, "Normal", successDeprovisionReason)
        IN  IF c1.ret = "err" THEN c1
            ELSE IF isInstanceFailed(instance) THEN clearFinalizer(c1)
            ELSE IF response.kind \in {"httpError", "error"} THEN Return(c3, "err")
            ELSE IF response.kind = "async" /\ WriteFailed(c4) THEN Return(c4, "err")
            ELSE IF WriteFailed(c5) THEN Return(c5, "err")
            ELSE clearFinalizer(c6)

\* reconcileInstance, lines 282-294 without the guard.
checksumShowsNoWorkNever(instance) == FALSE

\* reconcileInstance, lines 282-294: without an operation in progress and
\* without a deletion timestamp, a checksum equal to the spec's means there
\* is no work to do.
checksumShowsNoWork(instance) ==
    /\ ~instance.async
    /\ instance.checksum # NilChecksum /\ ~instance.deleting
    /\ InstanceSpecChecksum(instance.spec) = instance.checksum

\* reconcileInstance, lines 390-401, with the Failed condition left out.
provisionRejectedNotFailed(toUpdate, t) ==
    setInstanceConditionInternal(toUpdate, InstanceConditionReady, ConditionFalse,
        errorProvisionCallFailedReason, errorProvisionCallFailedReason, t)

\* reconcileInstance, lines 390-401: the status after the broker rejected the
\* provision request (an HTTP error): Failed=True, then Ready=False.
provisionRejected(toUpdate, t) ==
    setInstanceConditionInternal(
        setInstanceConditionInternal(toUpdate, InstanceConditionFailed, ConditionTrue,
            "BrokerReturnedFailure", "BrokerReturnedFailure", t),
        InstanceConditionReady, ConditionFalse,
        errorProvisionCallFailedReason, errorProvisionCallFailedReason, t)

\* reconcileInstance, lines 414-419, setting the Failed condition as well.
provisionCallFailedForGood(toUpdate, t) ==
    setInstanceConditionInternal(
        setInstanceConditionInternal(toUpdate, InstanceConditionFailed, ConditionTrue,
            "BrokerReturnedFailure", "BrokerReturnedFailure", t),
        InstanceConditionReady, ConditionFalse,
        errorErrorCallingProvisionReason, errorErrorCallingProvisionReason, t)

\* reconcileInstance, lines 414-419: the status after the provision call
\* failed with another error: Ready=False, to be retried.
provisionCallFailed(toUpdate, t) ==
    setInstanceConditionInternal(toUpdate, InstanceConditionReady, ConditionFalse,
        errorErrorCallingProvisionReason, errorErrorCallingProvisionReason, t)

\* reconcileInstance, lines 426-429, with the dashboard URL dropped.
withDashboardURLDropped(toUpdate, response) == toUpdate

\* reconcileInstance, lines 426-429: a non-empty dashboard URL of the
\* response is recorded in the status.
withDashboardURL(toUpdate, response) ==
    IF response.dashboardURL \notin {Nil, ""}
    THEN [toUpdate EXCEPT !.dashboardURL = response.dashboardURL]
    ELSE toUpdate

\* reconcileInstance, lines 436-453, with the operation key not recorded.
provisionAcceptedKeyLost(toUpdate, response, t) ==
    setInstanceConditionInternal([toUpdate EXCEPT !.async = TRUE],
        InstanceConditionReady, ConditionFalse,
        asyncProvisioningReason, asyncProvisioningMessage, t)

\* reconcileInstance, lines 436-453: the status after an asynchronous
\* response: a non-empty operation key is recorded as LastOperation, the
\* instance is tagged AsyncOpInProgress, Ready=False.
provisionAccepted(toUpdate, response, t) ==
    setInstanceConditionInternal(
        [toUpdate EXCEPT
            !.lastOperation = IF response.operationKey \notin {Nil, ""}
                              THEN response.operationKey ELSE @,
            !.async = TRUE],
        InstanceConditionReady, ConditionFalse,
        asyncProvisioningReason, asyncProvisioningMessage, t)

\* reconcileInstance
reconcileInstance(c, instance, in, t) ==
    IF isInstanceFailed(instance) /\ ~instance.deleting THEN Return(c, "nil")
    ELSE IF checksumShowsNoWork(instance) THEN Return(c, "nil")
    ELSE IF instance.deleting THEN reconcileInstanceDelete(c, instance, in, t)
    ELSE
    LET c1 == getServiceClassPlanAndServiceBroker(c, instance, in, t)
        setReady(toUpdate, status, reason, message) ==
            setInstanceConditionInternal(toUpdate, InstanceConditionReady, status,
                                         reason, message, t)
        \* malformed parameters
        c2 == Event(updateInstanceStatus(c1,
                        setReady(instance, ConditionFalse, errorWithParameters,
                                 errorWithParameters), in),
                    "Warning", errorWithParameters)
        \* the namespace cannot be read
        c3 == Event(updateInstanceStatus(c1,
                        setReady(instance, ConditionFalse,
                                 errorFindingNamespaceInstanceReason,
                                 errorFindingNamespaceInstanceReason), in),
                    "Warning", errorFindingNamespaceInstanceReason)
        response == ProvisionResponse(in.reaction)
        c4 == BrokerCall(c1, "ProvisionInstance", response.kind)
        \* the broker rejected the request: a permanent failure
        c5 == updateInstanceStatus(c4, provisionRejected(instance, t), in)
        \* the call failed otherwise
        c6 == Event(updateInstanceStatus(c4, provisionCallFailed(instance, t), in),
                    "Warning", errorErrorCallingProvisionReason)
        \* success
        withURL == withDashboardURL(instance, response)
        c7 == Event(updateInstanceStatus(c4, provisionAccepted(withURL, response, t), in),
                    "Normal", asyncProvisioningReason)
        c8 == Event(updateInstanceStatus(c4,
                        setReady(withURL, ConditionTrue, successProvisionReason,
                                 successProvisionMessage), in),
                    "Normal", successProvisionReason)
    IN  IF c1.ret = "err" THEN c1
        ELSE IF instance.async THEN pollInstance(c1, instance, in, t)
        ELSE IF instance.spec.parameters = "malformed" THEN Return(c2, "err")
        ELSE IF in.lookup = "nsErr" THEN Return(c3, "err")
        ELSE IF response.kind = "httpError"
        THEN (IF WriteFailed(c5) THEN Return(c5, "err")
              ELSE Return(Event(c5, "Warning", errorProvisionCallFailedReason), "nil"))
        ELSE IF response.kind = "error" THEN Return(c6, "err")
        ELSE IF response.kind = "async"
        THEN Return([Log(c7, Entry("add", "pollingQueue", "", TRUE, Nil))
                        EXCEPT !.polled = TRUE], "nil")
        ELSE Return(c8, "nil")

\* reconcileInstanceKey: an instance that is not found is not worked on.
reconcileInstanceKey(c, stored, in, t) ==
    IF ~stored.exists THEN Return(c, "nil") ELSE reconcileInstance(c, stored, in, t)

\* requeueServiceInstanceForPoll, the reconciler of the polling worker: the
\* instance is read and polled.
requeueServiceInstanceForPoll(c, stored, in, t) ==
    IF ~stored.exists THEN Return(c, "nil") ELSE pollInstanceInternal(c, stored, in, t)

--------------------------------------------------------------------------
\* One service instance, its store record and the handlers that run on it.

\* The work queue under test is idle in this specification.
QueueIdle ==
    /\ wq = NewQueue
    /\ wpc = [w \in Workers |-> "get"]
    /\ wkey = [w \in Workers |-> NoKey]
    /\ stopped = FALSE
    /\ addsLeft = 0
    /\ failsLeft = 0
    /\ owed = [k \in Keys |-> FALSE]
    /\ spurious = FALSE
    /\ burst = [k \in Keys |-> 0]
    /\ lastBurst = [k \in Keys |-> 0]
    /\ starts = [k \in Keys |-> 0]
    /\ notified = [k \in Keys |-> 0]
    /\ dropped = [k \in Keys |-> FALSE]

\* A user has created the instance; no handler has run yet.
Init ==
    /\ QueueIdle
    /\ \E parameters \in ParameterKinds : inst = NewInstance(parameters, {FinalizerServiceCatalog})
    /\ pollingQueue = NewQueue
    /\ now = 1
    /\ pollFailsLeft = MaxPollFails
    /\ provOK = FALSE
    /\ deprov = "none"
    /\ BrokerIdle

\* Whether the run made the broker call `what` and got one of `results`.
Called(c, what, results) ==
    \E i \in 1..Len(c.ops) :
        c.ops[i].op = "call" /\ c.ops[i].what = what /\ c.ops[i].res \in results

\* What a finished run leaves behind: the store record, the clock, and the
\* history of the broker's answers.
Finish(c) ==
    /\ inst' = c.st
    /\ now' = IF now < MaxTime THEN now + 1 ELSE now
    /\ provOK' = (provOK \/ Called(c, "ProvisionInstance", {"sync", "async"}))
    /\ deprov' =
        IF Called(c, "DeprovisionInstance", {"sync"}) THEN "done"
        ELSE IF Called(c, "DeprovisionInstance", {"async"}) /\ deprov = "none" THEN "accepted"
        ELSE IF deprov = "accepted" /\ Called(c, "PollLastOperation", {"succeeded", "gone"})
        THEN "done"
        ELSE deprov

\* The run of reconcileInstanceKey on the stored instance, with the
\* collaborators answering as `in` says.
ReconcileRun(in) == reconcileInstanceKey(NewRun(inst), inst, in, now)

\* The run of the polling worker's reconciler on the stored instance.
PollRun(in) == requeueServiceInstanceForPoll(NewRun(inst), inst, in, now)

\* The polling queue after a reconciliation: c.pollingQueue.Add(key) if the
\* run got an asynchronous provision response.
PollingQueueAfter(c) == IF c.polled THEN QAdd(pollingQueue, InstanceKey) ELSE pollingQueue

\* An instance worker reconciles the instance (after a notification, a
\* resync or a rate limited retry).
ReconcileInstance(in) ==
    /\ LET c == ReconcileRun(in)
       IN  /\ Finish(c)
           /\ pollingQueue' = PollingQueueAfter(c)
    /\ UNCHANGED pollFailsLeft
    /\ UNCHANGED <<qvars, bvars>>

\* A polling worker takes the instance key from the polling queue, polls and
\* handles the result (worker, with forgetAfterSuccess = false).
PollWorker(in) ==
    /\ QCanGet(pollingQueue)
    /\ LET key == QGetKey(pollingQueue)
           c == PollRun(in)
       IN  /\ Finish(c)
           /\ c.ret = "err" => pollFailsLeft > 0
           /\ pollFailsLeft' = IF c.ret = "err" THEN pollFailsLeft - 1 ELSE pollFailsLeft
           /\ pollingQueue' = QDone(HandleResult(QGet(pollingQueue), key, c.ret = "err", FALSE), key)
    /\ UNCHANGED <<qvars, bvars>>

\* The backoff timer of the polling queue fires.
PollTimerFire ==
    /\ InstanceKey \in pollingQueue.waiting
    /\ pollingQueue' = QTimerFire(pollingQueue, InstanceKey)
    /\ UNCHANGED <<inst, now, pollFailsLeft, provOK, deprov>>
    /\ UNCHANGED <<qvars, bvars>>

\* A user deletes the instance: the store sets the deletion timestamp.
UserDelete ==
    /\ inst.exists /\ ~inst.deleting
    /\ inst' = [inst EXCEPT !.deleting = TRUE]
    /\ UNCHANGED <<pollingQueue, now, pollFailsLeft, provOK, deprov>>
    /\ UNCHANGED <<qvars, bvars>>

\* The store removes a deleted instance that has no finalizer left.
StoreRemove ==
    /\ inst.exists /\ inst.deleting /\ inst.finalizers = {}
    /\ inst' = [inst EXCEPT !.exists = FALSE]
    /\ UNCHANGED <<pollingQueue, now, pollFailsLeft, provOK, deprov>>
    /\ UNCHANGED <<qvars, bvars>>

Next ==
    \/ \E in \in HandlerInputs : ReconcileInstance(in)
    \/ \E in \in HandlerInputs : PollWorker(in)
    \/ PollTimerFire
    \/ UserDelete
    \/ StoreRemove

Spec == Init /\ [][Next]_vars

--------------------------------------------------------------------------
\* C1: for every key at most one reconciliation runs at any instant, whatever
\* the number of workers and however notifications interleave with them.
C1_SingleFlight ==
    \A k \in Keys : Cardinality({w \in Workers : wpc[w] = "reconcile" /\ wkey[w] = k}) <= 1

\* A notification for a key arrived while it is being reconciled and another
\* worker is free to take work.
C1_Witness ==
    \E w1 \in Workers, w2 \in Workers :
        /\ w1 # w2
        /\ wpc[w1] = "reconcile" /\ wkey[w1] = "ns/a"
        /\ burst["ns/a"] >= 1
        /\ wpc[w2] = "get"

\* C2: notifications that arrive while a key is being reconciled are coalesced
\* into exactly one further reconciliation, which starts only after the
\* running one has finished: no reconciliation starts without a pending
\* notification or retry, a pending key that is not held by a worker is queued
\* exactly once, a key being reconciled is never in the queue, and every
\* pending notification is eventually followed by a reconciliation start.
C2_Coalesced ==
    /\ ~spurious
    /\ \A k \in Keys :
        /\ CountInQueue(wq, k) <= 1
        /\ Running(k) => ~InQueue(wq, k)
        /\ Cardinality({w \in Workers : wkey[w] = k}) <= 1
        /\ (owed[k] /\ ~Held(k)) => CountInQueue(wq, k) = 1
        /\ (~owed[k]) => ~InQueue(wq, k)

C2_ExactlyOneMore ==
    /\ []C2_Coalesced
    /\ \A k \in Keys : (owed[k] ~> ~owed[k])

\* Two or more notifications arrived during the previous reconciliation of a
\* key, that reconciliation has finished, one further reconciliation is now
\* running and nothing more is pending.
C2_Witness ==
    /\ lastBurst["ns/a"] >= 2
    /\ starts["ns/a"] = 2
    /\ Running("ns/a")
    /\ ~owed["ns/a"]
    /\ ~InQueue(wq, "ns/a")

\* C10: a failed reconciliation is re-added with rate limiting while
\* NumRequeues(key) < maxRetries and otherwise forgotten and dropped; a key
\* that was notified once and always fails is reconciled at most
\* maxRetries + 1 times and is then absent from the queue with its requeue
\* count back at 0.
C10_Bound ==
    \A k \in Keys :
        notified[k] <= 1 =>
            /\ starts[k] <= maxRetries + 1
            /\ dropped[k] =>
                /\ starts[k] = maxRetries + 1
                /\ wq.failures[k] = 0
                /\ k \notin wq.waiting
                /\ k \notin wq.dirty
                /\ ~InQueue(wq, k)

C10_Step ==
    \A w \in Workers :
        (wpc[w] = "reconcile" /\ wpc'[w] = "done" /\ failsLeft' < failsLeft) =>
            IF wq.failures[wkey[w]] < maxRetries
            THEN /\ wq'.failures[wkey[w]] = wq.failures[wkey[w]] + 1
                 /\ (~wq.shuttingDown => wkey[w] \in wq'.waiting)
                 /\ ~dropped'[wkey[w]]
            ELSE /\ wq'.failures[wkey[w]] = 0
                 /\ wq'.waiting = wq.waiting
                 /\ dropped'[wkey[w]]

C10_BoundedRetry == []C10_Bound /\ [][C10_Step]_vars

\* The key was notified once, failed maxRetries + 1 times and has been dropped.
C10_Witness ==
    /\ notified["ns/a"] = 1
    /\ starts["ns/a"] = maxRetries + 1
    /\ dropped["ns/a"]
    /\ wq.failures["ns/a"] = 0

--------------------------------------------------------------------------
\* Properties of the instance reconciler. A property of "a reconciliation"
\* is stated of every run that can start in a reachable state, for every
\* answer of the collaborators.

\* P holds of every run that can start now: of a reconciliation with any
\* input, and of a poll with any input when the polling queue holds the key.
EveryRun(P(_)) ==
    \A in \in HandlerInputs :
        /\ P(ReconcileRun(in))
        /\ QCanGet(pollingQueue) => P(PollRun(in))

Calls(c, what) == \E i \in 1..Len(c.ops) : c.ops[i].op = "call" /\ c.ops[i].what = what

NumOps(c, op) == Cardinality({i \in 1..Len(c.ops) : c.ops[i].op = op})

\* The record the store holds just before the i-th operation of a run that
\* started with the record `stored`.
StoredBefore(stored, c, i) ==
    LET ws == {j \in 1..(i - 1) : c.ops[j].op = "write" /\ c.ops[j].ok}
    IN  IF ws = {} THEN stored
        ELSE c.ops[CHOOSE j \in ws : \A k \in ws : k <= j].obj

\* C3, of one run: finalizer safety. No run writes the instance with its service-catalog
\* finalizer removed while the stored status has AsyncOpInProgress = true,
\* and after a DeprovisionInstance call that returned an asynchronous
\* response the finalizer is still present when the run ends.
C3_RunSafe(c) ==
    /\ \A i \in 1..Len(c.ops) :
          (/\ c.ops[i].op = "write" /\ c.ops[i].ok
           /\ FinalizerServiceCatalog \in StoredBefore(inst, c, i).finalizers
           /\ FinalizerServiceCatalog \notin c.ops[i].obj.finalizers)
              => ~StoredBefore(inst, c, i).async
    /\ Called(c, "DeprovisionInstance", {"async"})
          => FinalizerServiceCatalog \in c.st.finalizers

C3_FinalizerSafety == EveryRun(C3_RunSafe)

\* C4: while the stored status has AsyncOpInProgress = true, no run issues a
\* ProvisionInstance or DeprovisionInstance call, with or without a deletion
\* timestamp.
C4_RunPollsOnly(c) == ~Calls(c, "ProvisionInstance") /\ ~Calls(c, "DeprovisionInstance")

C4_OnlyPollWhileAsync == (inst.exists /\ inst.async) => EveryRun(C4_RunPollsOnly)

\* C5: no double provisioning. Once a ProvisionInstance call has returned
\* success (synchronous or asynchronous), no later reconciliation issues
\* another ProvisionInstance call (the spec of the instance never changes).
C5_RunProvisionsNot(c) == ~Calls(c, "ProvisionInstance")

C5_NoDoubleProvision == provOK => EveryRun(C5_RunProvisionsNot)

\* C6: no lost deprovision. For an instance whose provisioning succeeded, the
\* finalizer is cleared only after a DeprovisionInstance call returned
\* synchronous success or a poll of an asynchronous deprovision reported
\* succeeded or Gone.
C6_NoLostDeprovision ==
    (provOK /\ FinalizerServiceCatalog \notin inst.finalizers) => deprov = "done"

\* C7: after a reconciliation that returns nil, the stored checksum equals
\* the checksum of the spec unless AsyncOpInProgress is true.
C7_ChecksumAfterSuccess ==
    inst.exists =>
        \A in \in HandlerInputs :
            LET c == ReconcileRun(in)
            IN  (c.ret = "nil" /\ ~c.st.async)
                    => c.st.checksum = InstanceSpecChecksum(c.st.spec)

\* The instance needs no work: its checksum is set and equal to the checksum
\* of its spec, no operation is in progress, it is not being deleted.
Settled ==
    /\ inst.exists
    /\ inst.checksum # NilChecksum
    /\ inst.checksum = InstanceSpecChecksum(inst.spec)
    /\ ~inst.async
    /\ ~inst.deleting

\* C8: idempotence. Reconciling an instance that needs no work returns nil,
\* makes no lookup, no broker call, no store read or write, no polling-queue
\* addition and emits no event; the stored record is left as it is, so that
\* repeating the reconciliation changes nothing.
C8_Idempotent ==
    Settled =>
        \A in \in HandlerInputs :
            LET c == ReconcileRun(in)
            IN  c.ret = "nil" /\ c.ops = <<>> /\ ~c.polled /\ c.st = inst

\* A provisioned instance that needs no work, for which the broker would
\* answer had it been called.
C8_Witness ==
    /\ Settled
    /\ provOK
    /\ HasCondition(inst, InstanceConditionReady, ConditionTrue)
    /\ \E in \in HandlerInputs : in.lookup = "ok" /\ ReconcileRun(in).ops = <<>>

\* The instance is being deleted, holds the finalizer, and was never
\* provisioned as far as its status tells.
DeletedUnprovisioned ==
    /\ inst.exists /\ inst.deleting
    /\ FinalizerServiceCatalog \in inst.finalizers
    /\ inst.checksum = NilChecksum
    /\ ~inst.async

\* C9 as stated: such a reconciliation removes the finalizer and returns nil
\* with no lookup, no broker call and no event.
C9_AlwaysRemoves ==
    DeletedUnprovisioned =>
        \A in \in HandlerInputs :
            LET c == ReconcileRun(in)
            IN  /\ FinalizerServiceCatalog \notin c.st.finalizers
                /\ c.ret = "nil"
                /\ NumOps(c, "lookup") = 0 /\ NumOps(c, "call") = 0 /\ NumOps(c, "event") = 0

\* C9, amended: such a reconciliation makes no lookup, no broker call and
\* emits no event; it reads the instance and submits it without the
\* finalizer, once. If the store accepts the write the finalizer is removed
\* and nil is returned; if the store rejects it the error is returned and the
\* stored record is unchanged.
C9_RemovesUnlessWriteFails ==
    DeletedUnprovisioned =>
        \A in \in HandlerInputs :
            LET c == ReconcileRun(in)
            IN  /\ NumOps(c, "lookup") = 0 /\ NumOps(c, "call") = 0 /\ NumOps(c, "event") = 0
                /\ Len(c.ops) = 2
                /\ c.ops[1].op = "get" /\ c.ops[2].op = "write"
                /\ c.ops[2].obj.finalizers = inst.finalizers \ {FinalizerServiceCatalog}
                /\ IF c.ops[2].ok
                   THEN c.ret = "nil" /\ c.st = [inst EXCEPT !.finalizers = @ \ {FinalizerServiceCatalog}]
                   ELSE c.ret = "err" /\ c.st = inst

\* Such an instance, with a store that accepts the write and one that
\* rejects it.
C9_Witness ==
    /\ DeletedUnprovisioned
    /\ \E in \in HandlerInputs : ReconcileRun(in).ret = "nil"
    /\ \E in \in HandlerInputs : ReconcileRun(in).ret = "err"

\* The writes of a run: the statuses it submitted to the store.
Writes(c) == {i \in 1..Len(c.ops) : c.ops[i].op = "write"}

\* C11: when the provision call returns an asynchronous response with
\* operation key K, the reconciliation returns nil, writes one status, which
\* has AsyncOpInProgress = true, LastOperation = K and Ready=False, and adds
\* the key to the polling queue, which then holds it exactly once (an empty
\* polling queue grows to length 1).
C11_AsyncProvision ==
    \A in \in HandlerInputs :
        LET c == ReconcileRun(in)
            K == ProvisionResponse(in.reaction).operationKey
        IN  (Called(c, "ProvisionInstance", {"async"}) /\ K \notin {Nil, ""})
                => /\ c.ret = "nil"
                   /\ Cardinality(Writes(c)) = 1
                   /\ \A i \in Writes(c) :
                         /\ c.ops[i].obj.async
                         /\ c.ops[i].obj.lastOperation = K
                         /\ HasCondition(c.ops[i].obj, InstanceConditionReady, ConditionFalse)
                         /\ ~HasCondition(c.ops[i].obj, InstanceConditionReady, ConditionTrue)
                   /\ c.polled
                   /\ CountInQueue(PollingQueueAfter(c), InstanceKey) = 1
                   /\ pollingQueue.queue = <<>> => PollingQueueAfter(c).queue = <<InstanceKey>>

\* The provision call was answered asynchronously with key op1 and the
\* reconciliation has ended: the status is stored and the key is queued.
C11_Witness ==
    /\ provOK /\ inst.exists /\ ~inst.deleting
    /\ inst.async /\ inst.lastOperation = "op1"
    /\ HasCondition(inst, InstanceConditionReady, ConditionFalse)
    /\ pollingQueue.queue = <<InstanceKey>>

\* C12: when the provision call returns a synchronous success with a
\* non-empty dashboard URL U, the reconciliation returns nil, writes exactly
\* one status, which has Ready=True, dashboardURL = U and AsyncOpInProgress
\* false, and leaves the polling queue as it is.
C12_SyncProvision ==
    \A in \in HandlerInputs :
        LET c == ReconcileRun(in)
            U == ProvisionResponse(in.reaction).dashboardURL
        IN  (Called(c, "ProvisionInstance", {"sync"}) /\ U \notin {Nil, ""})
                => /\ c.ret = "nil"
                   /\ Cardinality(Writes(c)) = 1
                   /\ \A i \in Writes(c) :
                         /\ HasCondition(c.ops[i].obj, InstanceConditionReady, ConditionTrue)
                         /\ c.ops[i].obj.dashboardURL = U
                         /\ ~c.ops[i].obj.async
                   /\ ~c.polled
                   /\ PollingQueueAfter(c) = pollingQueue

\* The provision call was answered synchronously with a dashboard URL and
\* the reconciliation has ended: the status is stored, nothing is queued.
C12_Witness ==
    /\ provOK /\ inst.exists
    /\ inst.dashboardURL = "https://d.example"
    /\ HasCondition(inst, InstanceConditionReady, ConditionTrue)
    /\ ~inst.async
    /\ pollingQueue.queue = <<>>

\* The class lookup of the run failed.
ClassNotFound(c) ==
    \E i \in 1..Len(c.ops) :
        c.ops[i].op = "lookup" /\ c.ops[i].what = "ServiceClass" /\ ~c.ops[i].ok

\* C13: a reconciliation whose service class lookup fails returns an error,
\* makes exactly one status update, which sets Ready=False with reason
\* ReferencesNonexistentServiceClass, emits exactly one event, a warning,
\* makes no broker call, and looks up neither the plan nor the broker.
C13_NonexistentClass ==
    \A in \in HandlerInputs :
        LET c == ReconcileRun(in)
        IN  ClassNotFound(c)
                => /\ c.ret = "err"
                   /\ Cardinality(Writes(c)) = 1
                   /\ \A i \in Writes(c) :
                         \E j \in 1..Len(c.ops[i].obj.conditions) :
                            LET cond == c.ops[i].obj.conditions[j]
                            IN  /\ cond.type = InstanceConditionReady
                                /\ cond.status = ConditionFalse
                                /\ cond.reason = errorNonexistentServiceClassReason
                   /\ NumOps(c, "event") = 1
                   /\ \A i \in 1..Len(c.ops) : c.ops[i].op = "event" => c.ops[i].res = "Warning"
                   /\ NumOps(c, "call") = 0
                   /\ NumOps(c, "lookup") = 1
                   /\ ~c.polled

\* A new instance was reconciled and its class was not found: the condition
\* is stored and the broker was never called.
C13_Witness ==
    /\ inst.exists /\ ~inst.deleting /\ ~inst.async
    /\ inst.checksum = NilChecksum /\ ~provOK
    /\ Len(inst.conditions) = 1
    /\ inst.conditions[1].type = InstanceConditionReady
    /\ inst.conditions[1].status = ConditionFalse
    /\ inst.conditions[1].reason = errorNonexistentServiceClassReason
    /\ \E in \in HandlerInputs : ClassNotFound(ReconcileRun(in))

\* C14: when a poll of an instance with an asynchronous operation in flight
\* returns state in-progress, the run returns an error, the stored
\* AsyncOpInProgress remains true, the finalizers are unchanged, and at most
\* one status is written, which differs from the stored one only in its
\* conditions and has Ready=False.
C14_RunInProgress(c) ==
    Called(c, "PollLastOperation", {"in progress"})
        => /\ c.ret = "err"
           /\ c.st.async
           /\ c.st.finalizers = inst.finalizers
           /\ Cardinality(Writes(c)) <= 1
           /\ \A i \in Writes(c) :
                 /\ [c.ops[i].obj EXCEPT !.conditions = inst.conditions] = inst
                 /\ HasCondition(c.ops[i].obj, InstanceConditionReady, ConditionFalse)
           /\ [c.st EXCEPT !.conditions = inst.conditions] = inst
           /\ ~c.polled

C14_PollInProgress == (inst.exists /\ inst.async) => EveryRun(C14_RunInProgress)

\* An instance with an operation in flight, its key in the polling queue,
\* for which the broker reports in-progress, with and without a description.
C14_Witness ==
    /\ inst.exists /\ inst.async /\ QCanGet(pollingQueue)
    /\ \E in \in HandlerInputs :
          /\ Called(PollRun(in), "PollLastOperation", {"in progress"})
          /\ Cardinality(Writes(PollRun(in))) = 1
    /\ \E in \in HandlerInputs :
          /\ Called(PollRun(in), "PollLastOperation", {"in progress"})
          /\ Cardinality(Writes(PollRun(in))) = 0

\* The stored Ready condition is False with the given reason.
ReadyFalseBecause(instance, reason) ==
    \E j \in 1..Len(instance.conditions) :
        /\ instance.conditions[j].type = InstanceConditionReady
        /\ instance.conditions[j].status = ConditionFalse
        /\ instance.conditions[j].reason = reason

\* An instance with a deletion timestamp and an asynchronous operation in
\* flight, its key in the polling queue.
DeletingInFlight ==
    inst.exists /\ inst.deleting /\ inst.async /\ QCanGet(pollingQueue)

\* The outcome of a poll that ended the deprovisioning: nil is returned,
\* AsyncOpInProgress is cleared, Ready is False with reason
\* DeprovisionedSuccessfully, and the service-catalog finalizer is gone, its
\* removal written after the condition.
C15_RunDeprovisioned(c) ==
    /\ c.ret = "nil"
    /\ ~c.st.async
    /\ ReadyFalseBecause(c.st, successDeprovisionReason)
    /\ FinalizerServiceCatalog \notin c.st.finalizers
    /\ \A i \in Writes(c) :
          (FinalizerServiceCatalog \in inst.finalizers
             /\ FinalizerServiceCatalog \notin c.ops[i].obj.finalizers)
              => \E j \in Writes(c) :
                    j < i /\ ReadyFalseBecause(c.ops[j].obj, successDeprovisionReason)

\* C15: for an instance with a deletion timestamp and an asynchronous
\* operation in flight, a poll that returns succeeded and a poll that fails
\* with HTTP 410 Gone have the same outcome, the one of C15_RunDeprovisioned.
C15_GoneAsSucceeded ==
    DeletingInFlight =>
        \A in \in HandlerInputs :
            LET c == PollRun(in)
                succeeded == PollRun([in EXCEPT !.reaction = "r1"])
                gone == PollRun([in EXCEPT !.reaction = "r7"])
            IN  Called(c, "PollLastOperation", {"succeeded", "gone"})
                    => /\ C15_RunDeprovisioned(c)
                       /\ succeeded.ret = gone.ret /\ succeeded.st = gone.st

\* The status carries both Failed=True and Ready=False with reason
\* ProvisionCallFailed.
MarkedFailed(instance) ==
    /\ HasCondition(instance, InstanceConditionFailed, ConditionTrue)
    /\ ReadyFalseBecause(instance, errorProvisionCallFailedReason)

\* C16 as stated: when the provision call fails with an HTTP error, the run
\* writes one status carrying Failed=True and Ready=False (reason
\* ProvisionCallFailed), returns nil, leaves AsyncOpInProgress false and does
\* not add to the polling queue.
C16_AlwaysNil ==
    \A in \in HandlerInputs :
        LET c == ReconcileRun(in)
        IN  Called(c, "ProvisionInstance", {"httpError"})
                => /\ Cardinality(Writes(c)) = 1
                   /\ \A i \in Writes(c) : MarkedFailed(c.ops[i].obj) /\ ~c.ops[i].obj.async
                   /\ c.ret = "nil"
                   /\ ~c.st.async
                   /\ ~c.polled /\ PollingQueueAfter(c) = pollingQueue

\* C16, amended: such a run writes one status carrying Failed=True and
\* Ready=False (reason ProvisionCallFailed) with AsyncOpInProgress false and
\* does not add to the polling queue. If the store accepts the write, the
\* failure is stored, one warning event is emitted and nil is returned; if
\* the store rejects it, the write's error is returned, nothing is stored
\* and no event is emitted.
C16_NilUnlessWriteFails ==
    \A in \in HandlerInputs :
        LET c == ReconcileRun(in)
        IN  Called(c, "ProvisionInstance", {"httpError"})
                => /\ Cardinality(Writes(c)) = 1
                   /\ \A i \in Writes(c) :
                         /\ MarkedFailed(c.ops[i].obj) /\ ~c.ops[i].obj.async
                         /\ IF c.ops[i].ok
                            THEN /\ c.ret = "nil"
                                 /\ MarkedFailed(c.st)
                                 /\ NumOps(c, "event") = 1
                            ELSE /\ c.ret = "err"
                                 /\ c.st = inst
                                 /\ NumOps(c, "event") = 0
                   /\ ~c.st.async
                   /\ ~c.polled /\ PollingQueueAfter(c) = pollingQueue

\* The broker rejected the provision request and the failure is stored.
C16_Witness ==
    /\ inst.exists /\ MarkedFailed(inst)
    /\ ~inst.async /\ ~provOK
    /\ pollingQueue.queue = <<>>

\* The stored instance with another spec, checksum and AsyncOpInProgress
\* value: the checksum nil, equal to the spec's, or the one of an older spec.
Variants(instance) ==
    {[instance EXCEPT !.spec.parameters = p, !.checksum = ck, !.async = a] :
        p \in ParameterKinds,
        ck \in {NilChecksum, InstanceSpecChecksum(instance.spec), <<0, "valid">>},
        a \in BOOLEAN}

C18_CallFailureRetried ==
    \A in \in HandlerInputs :
        LET c == ReconcileRun(in)
        IN  Called(c, "ProvisionInstance", {"error"})
                => /\ c.ret = "err"
                   /\ Cardinality(Writes(c)) = 1
                   /\ \A i \in Writes(c) :
                         /\ ReadyFalseBecause(c.ops[i].obj, errorErrorCallingProvisionReason)
                         /\ ~HasCondition(c.ops[i].obj, InstanceConditionFailed, ConditionTrue)
                         /\ ~c.ops[i].obj.async
                   /\ ~HasCondition(c.st, InstanceConditionFailed, ConditionTrue)
                   /\ NumOps(c, "event") = 1
                   /\ ~c.polled

\* The provision call failed with a transport error and the condition is
\* stored; the next reconciliation calls the broker again.
C18_Witness ==
    /\ inst.exists /\ ~inst.deleting /\ ~provOK
    /\ ReadyFalseBecause(inst, errorErrorCallingProvisionReason)
    /\ ~HasCondition(inst, InstanceConditionFailed, ConditionTrue)
    /\ \E in \in HandlerInputs : Calls(ReconcileRun(in), "ProvisionInstance")

--------------------------------------------------------------------------
\* setInstanceCondition on any condition list

ConditionTypes == {InstanceConditionReady, InstanceConditionFailed}

ConditionStatuses == {ConditionTrue, ConditionFalse, ConditionUnknown}

Reasons == {"r0", "r1"}

Messages == {"m0", "m1"}

\* The condition lists an instance starts with: up to MaxConds conditions of
\* any type and status (a type may occur more than once), set at time 0.
ConditionLists ==
    UNION {[1..n -> [type : ConditionTypes, status : ConditionStatuses, reason : {"r0"},
                     message : {"m0"}, lastTransitionTime : {0}]] : n \in 0..MaxConds}

ConditionInit ==
    /\ QueueIdle
    /\ \E conds \in ConditionLists :
          inst = [NewInstance("valid", {FinalizerServiceCatalog}) EXCEPT !.conditions = conds]
    /\ pollingQueue = NewQueue
    /\ now = 1
    /\ pollFailsLeft = 0
    /\ provOK = FALSE
    /\ deprov = "none"
    /\ BrokerIdle

\* setInstanceCondition: setInstanceConditionInternal at the current time.
setInstanceCondition(conditionType, status, reason, message) ==
    /\ inst' = setInstanceConditionInternal(inst, conditionType, status, reason, message, now)
    /\ UNCHANGED <<pollingQueue, now, pollFailsLeft, provOK, deprov>>
    /\ UNCHANGED <<qvars, bvars>>

\* Time passes.
ClockTick ==
    /\ now < MaxTime
    /\ now' = now + 1
    /\ UNCHANGED <<inst, pollingQueue, pollFailsLeft, provOK, deprov>>
    /\ UNCHANGED <<qvars, bvars>>

ConditionNext ==
    \/ \E conditionType \in ConditionTypes, status \in ConditionStatuses,
          reason \in Reasons, message \in Messages :
            setInstanceCondition(conditionType, status, reason, message)
    \/ ClockTick

SpecCondition == ConditionInit /\ [][ConditionNext]_vars

\* C19: for every call of setInstanceCondition(type, newStatus, reason,
\* message) at time now on the current condition list, the resulting
\* condition of that type carries the new status, reason and message, and
\* its LastTransitionTime is now if no condition of that type existed or its
\* previous status differed from newStatus, and the previous
\* LastTransitionTime if the previous status equals newStatus, whatever the
\* reason and message; the other conditions are not altered.
C19_TransitionTime ==
    \A conditionType \in ConditionTypes, status \in ConditionStatuses,
       reason \in Reasons, message \in Messages :
        LET old == inst.conditions
            new == setInstanceConditionInternal(inst, conditionType, status,
                                                reason, message, now).conditions
            i == IndexOfType(old, conditionType)
            k == IndexOfType(new, conditionType)
        IN  /\ k # 0
            /\ k = (IF i = 0 THEN Len(old) + 1 ELSE i)
            /\ Len(new) = (IF i = 0 THEN Len(old) + 1 ELSE Len(old))
            /\ new[k].status = status /\ new[k].reason = reason /\ new[k].message = message
            /\ new[k].lastTransitionTime =
                  (IF i = 0 \/ old[i].status # status THEN now
                   ELSE old[i].lastTransitionTime)
            /\ \A j \in 1..Len(old) : j # k => new[j] = old[j]

\* A condition whose reason and message were changed by a call at a later
\* time while its LastTransitionTime was kept, next to one whose status was
\* changed by a call at that time.
C19_Witness ==
    /\ now = MaxTime
    /\ \E i \in 1..Len(inst.conditions) :
          /\ inst.conditions[i].reason = "r1" /\ inst.conditions[i].message = "m1"
          /\ inst.conditions[i].lastTransitionTime = 0
    /\ \E i \in 1..Len(inst.conditions) : inst.conditions[i].lastTransitionTime = MaxTime

--------------------------------------------------------------------------
\* The polling queue over a long asynchronous operation: one instance, the
\* instance worker and the polling worker; the store accepts every write and
\* the lookups succeed, and a poll may report in-progress or fail more than
\* maxRetries times.

PollFails == maxRetries + 1

PollInputs == {in \in HandlerInputs : in.lookup = "ok" /\ in.failedWrite = 0}

PollInit ==
    /\ QueueIdle
    /\ inst = NewInstance("valid", {FinalizerServiceCatalog})
    /\ pollingQueue = NewQueue
    /\ now = 1
    /\ pollFailsLeft = PollFails
    /\ provOK = FALSE
    /\ deprov = "none"
    /\ BrokerIdle

PollNext ==
    \/ \E in \in PollInputs : ReconcileInstance(in)
    \/ \E in \in PollInputs : PollWorker(in)
    \/ PollTimerFire

SpecPoll == PollInit /\ [][PollNext]_vars

\* The key is scheduled for polling: queued, held by the polling worker, or
\* waiting for its backoff delay.
PollScheduled ==
    \/ InQueue(pollingQueue, InstanceKey)
    \/ InstanceKey \in pollingQueue.processing
    \/ InstanceKey \in pollingQueue.waiting

\* A step that schedules the key is a reconciliation that observed an
\* asynchronous broker response.
C20_EntersOnAsyncOnly ==
    (~PollScheduled /\ PollScheduled')
        => \E in \in HandlerInputs :
              /\ Called(ReconcileRun(in), "ProvisionInstance", {"async"})
              /\ inst' = ReconcileRun(in).st
              /\ pollingQueue' = PollingQueueAfter(ReconcileRun(in))

\* C20: a key enters the polling queue only when a reconciler observed an
\* asynchronous broker response, and while the operation is in progress (no
\* poll result was terminal, AsyncOpInProgress is stored true) the key stays
\* scheduled for polling: it is never dropped from the polling queue.
C20_PolledUntilTerminal ==
    /\ [][C20_EntersOnAsyncOnly]_vars
    /\ []((inst.exists /\ inst.async) => PollScheduled)

--------------------------------------------------------------------------
\* The broker reconciler

\* Bounds of the broker specifications
MaxBrokerTime == 3
MaxGeneration == 2

\* c.reconciliationRetryDuration, in clock ticks.
reconciliationRetryDuration == 1

errorFetchingCatalogReason == "ErrorFetchingCatalog"
errorSyncingCatalogReason == "ErrorSyncingCatalog"
errorListingServiceClassesReason == "ErrorListingServiceClasses"
errorListingServicePlansReason == "ErrorListingServicePlans"
errorDeletingServiceClassReason == "ErrorDeletingServiceClass"
errorDeletingServiceClassMessage == "Error deleting service class."
errorDeletingServicePlanReason == "ErrorDeletingServicePlan"
errorDeletingServicePlanMessage == "Error deleting service plan."
errorReconciliationRetryTimeoutReason == "ErrorReconciliationRetryTimeout"
successFetchedCatalogReason == "FetchedCatalog"
successClusterServiceBrokerDeletedReason == "DeletedSuccessfully"

\* The first condition of the given type, or 0.
BrokerConditionIndex(b, type) == IndexOfType(b.conditions, type)

\* shouldReconcileClusterServiceBroker with the relist interval passed as
\* soon as now reaches LastTransitionTime + RelistDuration.
shouldReconcileClusterServiceBrokerAtInterval(b, t) ==
    LET i == BrokerConditionIndex(b, ServiceBrokerConditionReady)
    IN  IF b.reconciledGeneration # b.generation THEN TRUE
        ELSE IF b.deleting \/ Len(b.conditions) = 0 THEN TRUE
        ELSE IF i = 0 THEN TRUE
        ELSE IF b.conditions[i].status # ConditionTrue THEN TRUE
        ELSE IF b.spec.relistBehavior = ServiceBrokerRelistBehaviorManual THEN FALSE
        ELSE IF b.spec.relistDuration = NilTime THEN FALSE
        ELSE t >= b.conditions[i].lastTransitionTime + b.spec.relistDuration

\* shouldReconcileClusterServiceBroker
shouldReconcileClusterServiceBroker(b, t) ==
    LET i == BrokerConditionIndex(b, ServiceBrokerConditionReady)
    IN  IF b.reconciledGeneration # b.generation THEN TRUE
        ELSE IF b.deleting \/ Len(b.conditions) = 0 THEN TRUE
        ELSE IF i = 0 THEN TRUE
        ELSE IF b.conditions[i].status # ConditionTrue THEN TRUE
        ELSE IF b.spec.relistBehavior = ServiceBrokerRelistBehaviorManual THEN FALSE
        ELSE IF b.spec.relistDuration = NilTime THEN FALSE
        ELSE t > b.conditions[i].lastTransitionTime + b.spec.relistDuration

\* The store's status update of a broker: the submitted status and
\* finalizers replace the stored ones; the spec, the generation and the
\* deletion timestamp are kept.
BrokerStoreUpdateStatus(stored, obj) ==
    [stored EXCEPT
        !.conditions = obj.conditions,
        !.reconciledGeneration = obj.reconciledGeneration,
        !.operationStartTime = obj.operationStartTime,
        !.finalizers = obj.finalizers]

\* What the steps of a broker reconciliation answer: every step succeeds, or
\* one of them fails. (A step the run does not reach has no effect.)
BrokerSteps ==
    {"ok", "authErr", "clientErr", "fetchErr", "convertErr", "noServices",
     "planErr", "classErr",
     "listClassesErr", "listPlansErr", "deletePlanErr", "deleteClassErr",
     "deletePlanNotFound", "deleteClassNotFound"}

\* failedWrite: which status write of the run the store rejects (0: none).
BrokerInputs == [step : BrokerSteps, failedWrite : 0..MaxWrites]

\* ClusterServiceBrokers().UpdateStatus(toUpdate) against the store.
updateClusterServiceBrokerStatus(c, toUpdate, in) ==
    IF NextWriteOK(c, in)
    THEN LET new == BrokerStoreUpdateStatus(c.st, toUpdate)
         IN  [c EXCEPT !.st = new,
                       !.ops = Append(@, Entry("write", "UpdateStatus", "", TRUE, new))]
    ELSE Log(c, Entry("write", "UpdateStatus", "", FALSE, toUpdate))

\* updateClusterServiceBrokerCondition, lines 600-638: the copy of the broker
\* with the condition set. A condition is put in an empty list or replaces
\* the first condition of its type; a list that holds conditions but none of
\* the type is left as it is. Ready=True also sets ReconciledGeneration.
withBrokerCondition(b, conditionType, status, reason, message, t) ==
    LET i == BrokerConditionIndex(b, conditionType)
        newCondition(ltt) ==
            [type |-> conditionType, status |-> status, reason |-> reason,
             message |-> message, lastTransitionTime |-> ltt]
        withCondition ==
            IF Len(b.conditions) = 0
            THEN [b EXCEPT !.conditions = <<newCondition(t)>>]
            ELSE IF i # 0
            THEN [b EXCEPT !.conditions[i] =
                    newCondition(IF b.conditions[i].status # status THEN t
                                 ELSE b.conditions[i].lastTransitionTime)]
            ELSE b
    IN  IF conditionType = ServiceBrokerConditionReady /\ status = ConditionTrue
        THEN [withCondition EXCEPT !.reconciledGeneration = b.generation]
        ELSE withCondition

\* updateClusterServiceBrokerCondition
updateClusterServiceBrokerCondition(c, b, conditionType, status, reason, message, in, t) ==
    updateClusterServiceBrokerStatus(c,
        withBrokerCondition(b, conditionType, status, reason, message, t), in)

\* updateClusterServiceBrokerFinalizers deleting the broker record instead
\* of updating its finalizers.
updateClusterServiceBrokerFinalizersDeleting(c, finalizers, in) ==
    LET c1 == Log(c, Entry("get", "Get", "", TRUE, c.st))
    IN  [c1 EXCEPT !.st = [@ EXCEPT !.exists = FALSE],
                   !.ops = Append(@, Entry("delete", "ClusterServiceBrokers", "", TRUE, Nil))]

\* updateClusterServiceBrokerFinalizers: the latest version is read from the
\* store, its finalizers are replaced and it is submitted.
updateClusterServiceBrokerFinalizers(c, finalizers, in) ==
    LET c1 == Log(c, Entry("get", "Get", "", TRUE, c.st))
    IN  updateClusterServiceBrokerStatus(c1, [c1.st EXCEPT !.finalizers = finalizers], in)

\* The names of the service classes and service plans of the store.
ClassNames == {"class1"}
PlanNames == {"plan1", "plan2"}

\* convertCatalog: the catalog of the broker holds one service class with
\* one service plan. The name of a class or plan is its external ID; the
\* broker name is filled in when the class or plan is reconciled.
convertCatalog ==
    [classes |-> {[name |-> "class1", externalID |-> "class1", owner |-> "",
                   description |-> BrokerName]},
     plans |-> {[name |-> "plan1", externalID |-> "plan1", owner |-> "",
                 class |-> "class1", description |-> BrokerName]}]

\* A create, update or delete of a service class or service plan that the
\* store carried out (a delete with ok = FALSE: the store answered NotFound).
CatalogWrite(c, op, what, obj) == Log(c, Entry(op, what, obj.name, TRUE, obj))

\* ServicePlans().Delete / ServiceClasses().Delete
CatalogDelete(c, what, obj, found) == Log(c, Entry("delete", what, obj.name, found, obj))

\* reconcileServicePlan; planErr: the lister, the create or the update fails.
reconcileServicePlan(c, cat, plan, in) ==
    LET servicePlan == [plan EXCEPT !.owner = BrokerName]
        existing == {p \in cat.plans : p.name = servicePlan.name}
        existingServicePlan == CHOOSE p \in existing : TRUE
        toUpdate == [existingServicePlan EXCEPT !.description = servicePlan.description]
    IN  IF in.step = "planErr" THEN Return(c, "err")
        ELSE IF existing = {} THEN CatalogWrite(c, "create", "ServicePlans", servicePlan)
        ELSE IF existingServicePlan.externalID # servicePlan.externalID
        THEN Return(c, "err")
        ELSE CatalogWrite(c, "update", "ServicePlans", toUpdate)

\* reconcileServiceClassFromClusterServiceBrokerCatalog; classErr: the
\* lister, the create or the update fails.
reconcileServiceClassFromClusterServiceBrokerCatalog(c, cat, class, in) ==
    LET serviceClass == [class EXCEPT !.owner = BrokerName]
        existing == {k \in cat.classes : k.name = serviceClass.name}
        existingServiceClass == CHOOSE k \in existing : TRUE
        toUpdate == [existingServiceClass EXCEPT !.description = serviceClass.description]
    IN  IF in.step = "classErr" THEN Return(c, "err")
        ELSE IF existing = {} THEN CatalogWrite(c, "create", "ServiceClasses", serviceClass)
        ELSE IF existingServiceClass.owner # BrokerName THEN Return(c, "err")
        ELSE IF existingServiceClass.externalID # serviceClass.externalID
        THEN Return(c, "err")
        ELSE CatalogWrite(c, "update", "ServiceClasses", toUpdate)

\* reconcileClusterServiceBroker, lines 328-344: the plans of the catalog
\* are reconciled until one of them fails.
RECURSIVE reconcileServicePlans(_, _, _, _)
reconcileServicePlans(c, cat, servicePlans, in) ==
    IF servicePlans = {} THEN c
    ELSE LET servicePlan == CHOOSE p \in servicePlans : TRUE
             c1 == reconcileServicePlan(c, cat, servicePlan, in)
         IN  IF c1.ret = "err" THEN c1
             ELSE reconcileServicePlans(c1, cat, servicePlans \ {servicePlan}, in)

\* reconcileClusterServiceBroker, lines 346-365: the classes of the catalog
\* are reconciled until one of them fails.
RECURSIVE reconcileServiceClasses(_, _, _, _)
reconcileServiceClasses(c, cat, serviceClasses, in) ==
    IF serviceClasses = {} THEN c
    ELSE LET serviceClass == CHOOSE k \in serviceClasses : TRUE
             c1 == reconcileServiceClassFromClusterServiceBrokerCatalog(c, cat, serviceClass, in)
         IN  IF c1.ret = "err" THEN c1
             ELSE reconcileServiceClasses(c1, cat, serviceClasses \ {serviceClass}, in)

\* reconcileClusterServiceBroker, lines 251-289: the catalog fetch failed.
fetchFailed(c, b, in, t) ==
    LET c1 == Event(c, "Warning", errorFetchingCatalogReason)
        c2 == updateClusterServiceBrokerCondition(c1, b, ServiceBrokerConditionReady,
                  ConditionFalse, errorFetchingCatalogReason, errorFetchingCatalogReason, in, t)
        \* the first failure: the start of the retries is recorded
        c3 == updateClusterServiceBrokerStatus(c2, [b EXCEPT !.operationStartTime = t], in)
        \* the retries have lasted too long
        c4 == Event(c2, "Warning", errorReconciliationRetryTimeoutReason)
        toUpdate == [b EXCEPT !.operationStartTime = NilTime,
                              !.reconciledGeneration = b.generation]
        c5 == updateClusterServiceBrokerCondition(c4, toUpdate, ServiceBrokerConditionFailed,
                  ConditionTrue, errorReconciliationRetryTimeoutReason,
                  errorReconciliationRetryTimeoutReason, in, t)
    IN  IF WriteFailed(c2) THEN Return(c2, "err")
        ELSE IF b.operationStartTime = NilTime THEN Return(c3, "err")
        ELSE IF ~(t < b.operationStartTime + reconciliationRetryDuration)
        THEN Return(c5, IF WriteFailed(c5) THEN "err" ELSE "nil")
        ELSE Return(c2, "err")

\* reconcileClusterServiceBroker, lines 290-373: the catalog was fetched.
fetchSucceeded(c, b, cat, in, t) ==
    LET \* the retries are over
        c1 == IF b.operationStartTime # NilTime
              THEN updateClusterServiceBrokerStatus(c, [b EXCEPT !.operationStartTime = NilTime], in)
              ELSE c
        syncFailed(c0) ==
            updateClusterServiceBrokerCondition(
                Event(c0, "Warning", errorSyncingCatalogReason), b,
                ServiceBrokerConditionReady, ConditionFalse, errorSyncingCatalogReason,
                errorSyncingCatalogReason, in, t)
        c2 == reconcileServicePlans(c1, cat, convertCatalog.plans, in)
        c3 == reconcileServiceClasses(c2, cat, convertCatalog.classes, in)
        c4 == updateClusterServiceBrokerCondition(c3, b, ServiceBrokerConditionReady,
                  ConditionTrue, successFetchedCatalogReason, successFetchedCatalogReason, in, t)
    IN  IF b.operationStartTime # NilTime /\ WriteFailed(c1) THEN Return(c1, "err")
        ELSE IF in.step \in {"convertErr", "noServices"} THEN Return(syncFailed(c1), "err")
        ELSE IF c2.ret = "err" THEN Return(syncFailed(c2), "err")
        ELSE IF c3.ret = "err" THEN Return(syncFailed(c3), "err")
        ELSE IF WriteFailed(c4) THEN Return(c4, "err")
        ELSE Return(Event(c4, "Normal", successFetchedCatalogReason), "nil")

\* reconcileClusterServiceBroker, lines 419-442: the plans of the class are
\* deleted; a plan the store does not find counts as deleted, another error
\* ends the reconciliation.
RECURSIVE deleteServicePlans(_, _, _, _, _, _)
deleteServicePlans(c, b, svcClass, plans, in, t) ==
    IF plans = {} THEN c
    ELSE LET plan == CHOOSE p \in plans : TRUE
             rest == plans \ {plan}
             failed == Event(updateClusterServiceBrokerCondition(c, b,
                                 ServiceBrokerConditionReady, ConditionUnknown,
                                 errorDeletingServicePlanMessage,
                                 errorDeletingServicePlanReason, in, t),
                             "Warning", errorDeletingServicePlanReason)
         IN  IF plan.class # svcClass.name
             THEN deleteServicePlans(c, b, svcClass, rest, in, t)
             ELSE IF in.step = "deletePlanErr" THEN Return(failed, "err")
             ELSE deleteServicePlans(
                      CatalogDelete(c, "ServicePlans", plan, in.step # "deletePlanNotFound"),
                      b, svcClass, rest, in, t)

\* The body of the loop over the classes with the class deleted before its
\* plans are.
deleteServiceClassBeforePlans(c, b, svcClass, cat, in, t) ==
    deleteServicePlans(CatalogDelete(c, "ServiceClasses", svcClass, TRUE),
                       b, svcClass, cat.plans, in, t)

\* reconcileClusterServiceBroker, lines 401-465: a class of the broker is
\* deleted after its plans.
deleteServiceClass(c, b, svcClass, cat, in, t) ==
    LET listFailed == Event(updateClusterServiceBrokerCondition(c, b,
                                ServiceBrokerConditionReady, ConditionUnknown,
                                errorListingServicePlansReason,
                                errorListingServicePlansReason, in, t),
                            "Warning", errorListingServicePlansReason)
        c1 == deleteServicePlans(c, b, svcClass, cat.plans, in, t)
        failed == updateClusterServiceBrokerCondition(
                      Event(c1, "Warning", errorDeletingServiceClassReason), b,
                      ServiceBrokerConditionReady, ConditionUnknown,
                      errorDeletingServiceClassMessage, errorDeletingServiceClassReason,
                      in, t)
    IN  IF in.step = "listPlansErr" THEN Return(listFailed, "err")
        ELSE IF c1.ret = "err" THEN c1
        ELSE IF in.step = "deleteClassErr" THEN Return(failed, "err")
        ELSE CatalogDelete(c1, "ServiceClasses", svcClass, in.step # "deleteClassNotFound")

\* reconcileClusterServiceBroker, lines 400-466: the classes that name the
\* broker are deleted until a step fails.
RECURSIVE deleteServiceClasses(_, _, _, _, _, _)
deleteServiceClasses(c, b, svcClasses, cat, in, t) ==
    IF svcClasses = {} THEN c
    ELSE LET svcClass == CHOOSE k \in svcClasses : TRUE
             rest == svcClasses \ {svcClass}
             c1 == deleteServiceClass(c, b, svcClass, cat, in, t)
         IN  IF svcClass.owner # BrokerName
             THEN deleteServiceClasses(c, b, rest, cat, in, t)
             ELSE IF c1.ret = "err" THEN c1
             ELSE deleteServiceClasses(c1, b, rest, cat, in, t)

\* reconcileClusterServiceBroker, lines 379-484: the broker is being deleted.
finalizeBroker(c, b, cat, in, t) ==
    LET c1 == updateClusterServiceBrokerCondition(
                  Event(c, "Warning", errorListingServiceClassesReason), b,
                  ServiceBrokerConditionReady, ConditionUnknown,
                  errorListingServiceClassesReason, errorListingServiceClassesReason,
                  in, t)
        c2 == deleteServiceClasses(c, b, cat.classes, cat, in, t)
        c3 == updateClusterServiceBrokerCondition(c2, b, ServiceBrokerConditionReady,
                  ConditionFalse, successClusterServiceBrokerDeletedReason,
                  successClusterServiceBrokerDeletedReason, in, t)
        c4 == Event(updateClusterServiceBrokerFinalizers(c3,
                        b.finalizers \ {FinalizerServiceCatalog}, in),
                    "Normal", successClusterServiceBrokerDeletedReason)
    IN  IF FinalizerServiceCatalog \notin b.finalizers THEN Return(c, "nil")
        ELSE IF in.step = "listClassesErr" THEN Return(c1, "err")
        ELSE IF c2.ret = "err" THEN c2
        ELSE IF WriteFailed(c3) THEN Return(c3, "err")
        ELSE Return(c4, "nil")

\* reconcileClusterServiceBroker
reconcileClusterServiceBroker(c, b, cat, in, t) ==
    LET credentialsFailed ==
            updateClusterServiceBrokerCondition(
                Event(c, "Warning", errorAuthCredentialsReason), b,
                ServiceBrokerConditionReady, ConditionFalse, errorFetchingCatalogReason,
                errorFetchingCatalogReason, in, t)
    IN  IF ~shouldReconcileClusterServiceBroker(b, t) THEN Return(c, "nil")
        ELSE IF b.deleting THEN finalizeBroker(c, b, cat, in, t)
        ELSE IF in.step \in {"authErr", "clientErr"} THEN Return(credentialsFailed, "err")
        ELSE IF in.step = "fetchErr"
        THEN fetchFailed(BrokerCall(c, "GetCatalog", "error"), b, in, t)
        ELSE fetchSucceeded(BrokerCall(c, "GetCatalog", "ok"), b, cat, in, t)

\* reconcileClusterServiceBrokerKey: a broker that is not found is not
\* worked on.
reconcileClusterServiceBrokerKey(c, stored, cat, in, t) ==
    IF ~stored.exists THEN Return(c, "nil")
    ELSE reconcileClusterServiceBroker(c, stored, cat, in, t)

--------------------------------------------------------------------------
\* One service broker, its store record and the reconciliations of it.

\* A user has created the broker; it has not been reconciled yet.
BrokerInit ==
    /\ QueueIdle
    /\ InstanceIdle
    /\ \E settings \in RelistSettings : broker = NewBroker(settings)
    /\ catalog = NoCatalog

\* The run of reconcileClusterServiceBrokerKey on the stored broker, with
\* the steps answering as `in` says.
BrokerRun(in) == reconcileClusterServiceBrokerKey(NewRun(broker), broker, catalog, in, now)

\* The service classes and plans in the store after the first i - 1
\* operations of a run: what the run created or updated is stored, what it
\* deleted (or the store did not find) is not.
RECURSIVE CatalogBefore(_, _, _)
CatalogBefore(cat, ops, i) ==
    IF i <= 1 THEN cat
    ELSE LET before == CatalogBefore(cat, ops, i - 1)
             e == ops[i - 1]
             without(set) == {x \in set : x.name # e.res}
             after(set) == IF e.op = "delete" THEN without(set)
                           ELSE without(set) \cup {e.obj}
         IN  IF e.op \notin {"create", "update", "delete"} THEN before
             ELSE IF e.what = "ServiceClasses"
             THEN [before EXCEPT !.classes = after(@)]
             ELSE IF e.what = "ServicePlans"
             THEN [before EXCEPT !.plans = after(@)]
             ELSE before

\* The service classes and plans in the store after a run.
CatalogAfter(c) == CatalogBefore(catalog, c.ops, Len(c.ops) + 1)

\* A broker worker reconciles the broker (after a notification, a resync or
\* a rate limited retry).
ReconcileBroker(in) ==
    /\ LET c == BrokerRun(in)
       IN  /\ broker' = c.st
           /\ catalog' = CatalogAfter(c)
    /\ UNCHANGED <<qvars, ivars>>

\* Time passes.
BrokerClockTick ==
    /\ now < MaxBrokerTime
    /\ now' = now + 1
    /\ UNCHANGED <<inst, pollingQueue, pollFailsLeft, provOK, deprov>>
    /\ UNCHANGED <<qvars, bvars>>

\* A user edits the spec of the broker: the store increments the generation.
BrokerEdit(settings) ==
    /\ broker.exists /\ ~broker.deleting
    /\ broker.generation < MaxGeneration
    /\ broker' = [broker EXCEPT !.spec = settings, !.generation = @ + 1]
    /\ UNCHANGED <<qvars, ivars, catalog>>

\* A user deletes the broker: the store sets the deletion timestamp.
BrokerDelete ==
    /\ broker.exists /\ ~broker.deleting
    /\ broker' = [broker EXCEPT !.deleting = TRUE]
    /\ UNCHANGED <<qvars, ivars, catalog>>

\* The store removes a deleted broker that has no finalizer left.
BrokerStoreRemove ==
    /\ broker.exists /\ broker.deleting /\ broker.finalizers = {}
    /\ broker' = [broker EXCEPT !.exists = FALSE]
    /\ UNCHANGED <<qvars, ivars, catalog>>

BrokerNext ==
    \/ \E in \in BrokerInputs : ReconcileBroker(in)
    \/ BrokerClockTick
    \/ \E settings \in RelistSettings : BrokerEdit(settings)
    \/ BrokerDelete
    \/ BrokerStoreRemove

SpecBroker == BrokerInit /\ [][BrokerNext]_vars

--------------------------------------------------------------------------
\* Claims about the broker reconciler

\* The run fetched the catalog of the broker.
FetchedCatalog(c) == Called(c, "GetCatalog", {"ok"})

\* The run failed to fetch the catalog of the broker.
FetchFailed(c) == Called(c, "GetCatalog", {"error"})

\* C21: ReconciledGeneration equals Generation only if a catalog fetch for
\* the current generation of the spec has succeeded: a reconciliation of a
\* broker whose ReconciledGeneration differs from its Generation submits a
\* status with ReconciledGeneration = Generation only if it fetched the
\* catalog; no failure path, the retry timeout included, does so.
C21_ReconciledOnlyAfterFetch ==
    \A in \in BrokerInputs :
        LET c == BrokerRun(in)
        IN  \A i \in Writes(c) :
                (/\ broker.reconciledGeneration # broker.generation
                 /\ c.ops[i].obj.reconciledGeneration = broker.generation)
                    => FetchedCatalog(c)

\* The retries of the broker's reconciliation have lasted
\* reconciliationRetryDuration or longer.
RetryTimedOut ==
    /\ broker.operationStartTime # NilTime
    /\ now >= broker.operationStartTime + reconciliationRetryDuration

\* C22: the retry timeout of a broker. A failed catalog fetch on a broker
\* without OperationStartTime records OperationStartTime; a failed catalog
\* fetch at a time >= OperationStartTime + reconciliationRetryDuration leaves
\* the stored status with Failed=True and returns nil, and from then on
\* shouldReconcile is false for the stored broker (until its generation
\* changes or it is deleted). (Stated of the runs whose writes the store
\* accepts.)
C22_RetryTimeout ==
    \A in \in BrokerInputs :
        LET c == BrokerRun(in)
        IN  (FetchFailed(c) /\ in.failedWrite = 0)
                => /\ broker.operationStartTime = NilTime
                        => c.st.operationStartTime # NilTime
                   /\ RetryTimedOut
                        => /\ HasCondition(c.st, ServiceBrokerConditionFailed, ConditionTrue)
                           /\ c.ret = "nil"
                           /\ \A t \in now..MaxBrokerTime :
                                  ~shouldReconcileClusterServiceBroker(c.st, t)

--------------------------------------------------------------------------
\* shouldReconcileClusterServiceBroker applied to any broker state.

\* The condition lists of a broker: at most one condition of each type.
BrokerConditionLists ==
    LET ready == [type : {ServiceBrokerConditionReady}, status : ConditionStatuses,
                  reason : {successFetchedCatalogReason}, message : {successFetchedCatalogReason},
                  lastTransitionTime : 1..MaxBrokerTime]
        failed == [type : {ServiceBrokerConditionFailed}, status : ConditionStatuses,
                   reason : {errorReconciliationRetryTimeoutReason},
                   message : {errorReconciliationRetryTimeoutReason},
                   lastTransitionTime : {1}]
    IN  {<<>>} \cup {<<r>> : r \in ready} \cup {<<f>> : f \in failed}
            \cup {<<r, f>> : r \in ready, f \in failed}
            \cup {<<f, r>> : f \in failed, r \in ready}

\* Any broker in the store: any generation and reconciled generation, any
\* relist settings and conditions, with or without a deletion timestamp.
RelistInit ==
    /\ QueueIdle
    /\ InstanceIdle
    /\ \E settings \in RelistSettings, generation \in 1..MaxGeneration,
          reconciledGeneration \in 0..MaxGeneration, deleting \in BOOLEAN,
          conds \in BrokerConditionLists :
            /\ reconciledGeneration <= generation
            /\ broker = [NewBroker(settings) EXCEPT
                            !.generation = generation,
                            !.reconciledGeneration = reconciledGeneration,
                            !.deleting = deleting,
                            !.conditions = conds]
    /\ catalog = NoCatalog

\* The reconciliations whose steps all succeed.
RelistInputs == {in \in BrokerInputs : in.step = "ok" /\ in.failedWrite = 0}

RelistNext ==
    \/ \E in \in RelistInputs : ReconcileBroker(in)
    \/ BrokerClockTick

SpecRelist == RelistInit /\ [][RelistNext]_vars

\* The broker has a Ready condition with status True.
BrokerReady(b) == HasCondition(b, ServiceBrokerConditionReady, ConditionTrue)

\* The time at which the Ready condition of the broker last changed.
ReadySince(b) ==
    b.conditions[BrokerConditionIndex(b, ServiceBrokerConditionReady)].lastTransitionTime

\* The reference decision as stated: an unset RelistDuration is no duration.
ReferenceDecision(b, t) ==
    \/ b.generation # b.reconciledGeneration
    \/ b.deleting
    \/ b.conditions = <<>>
    \/ ~BrokerReady(b)
    \/ /\ BrokerReady(b)
       /\ b.spec.relistBehavior # ServiceBrokerRelistBehaviorManual
       /\ t > ReadySince(b)
                + (IF b.spec.relistDuration = NilTime THEN 0 ELSE b.spec.relistDuration)

AmendedDecision(b, t) ==
    \/ b.generation # b.reconciledGeneration
    \/ b.deleting
    \/ b.conditions = <<>>
    \/ ~BrokerReady(b)
    \/ /\ BrokerReady(b)
       /\ b.spec.relistBehavior # ServiceBrokerRelistBehaviorManual
       /\ b.spec.relistDuration # NilTime
       /\ t > ReadySince(b) + b.spec.relistDuration

--------------------------------------------------------------------------
\* C24: shutdown. After the stop signal no worker starts a reconciliation of
\* a new item, every reconciliation in flight runs to completion, and every
\* worker eventually exits (Run, which waits for the workers, returns only
\* then).
C24_Shutdown ==
    /\ [][stopped => starts' = starts]_vars
    /\ [][\A w \in Workers :
            (stopped /\ wpc[w] = "reconcile") => wpc'[w] \in {"reconcile", "done"}]_vars
    /\ \A w \in Workers : (stopped /\ wpc[w] = "reconcile") ~> (wpc[w] = "done")
    /\ stopped ~> (\A w \in Workers : wpc[w] = "exited")

--------------------------------------------------------------------------
\* C25: a failed status update is never silently dropped: whenever a status
\* write of an instance reconciliation is rejected by the store, the
\* reconciliation returns an error; the writes after a synchronous provision
\* success, after an asynchronous provision response and after a transport
\* error of the provision call are among them.
C25_WriteFailureReturned ==
    \A in \in HandlerInputs :
        LET c == ReconcileRun(in)
        IN  (\E i \in Writes(c) : ~c.ops[i].ok) => c.ret = "err"

--------------------------------------------------------------------------
\* One service instance and one service broker, reconciled side by side.

\* A user has created the broker and the instance.
FrameInit ==
    /\ QueueIdle
    /\ \E parameters \in ParameterKinds : inst = NewInstance(parameters, {FinalizerServiceCatalog})
    /\ pollingQueue = NewQueue
    /\ now = 1
    /\ pollFailsLeft = MaxPollFails
    /\ provOK = FALSE
    /\ deprov = "none"
    /\ BrokerIdle

\* The broker reconciliations whose steps all succeed.
FrameBrokerInputs == RelistInputs

\* The instance reconciliations whose lookups succeed and whose writes the
\* store accepts, the broker answering with a synchronous success (a poll:
\* succeeded) or with an asynchronous response (a poll: in progress).
FrameInputs == {in \in PollInputs : in.reaction \in {"r1", "r4"}}

FrameNext ==
    \/ \E in \in FrameInputs : ReconcileInstance(in)
    \/ \E in \in FrameInputs : PollWorker(in)
    \/ PollTimerFire
    \/ UserDelete
    \/ StoreRemove
    \/ \E in \in FrameBrokerInputs : ReconcileBroker(in)
    \/ BrokerDelete
    \/ BrokerStoreRemove

SpecFrame == FrameInit /\ [][FrameNext]_vars

\* The deletes a run issued.
Deletes(c) == {i \in 1..Len(c.ops) : c.ops[i].op = "delete"}

\* The run of a reconciler on the record `stored` wrote nothing but statuses
\* (with the finalizers), every object it submitted and the record it left
\* in the store have the spec of `stored`, the record is neither removed nor
\* marked for deletion by the run, and the run deleted nothing but service
\* classes and service plans.
C26_RunKeepsSpec(c, stored) ==
    /\ \A i \in Writes(c) :
          /\ c.ops[i].what = "UpdateStatus"
          /\ c.ops[i].obj.spec = stored.spec
    /\ c.st.spec = stored.spec
    /\ c.st.exists = stored.exists
    /\ c.st.deleting = stored.deleting
    /\ \A i \in Deletes(c) : c.ops[i].what \in {"ServiceClasses", "ServicePlans"}

C27_RunKeepsCache(c) ==
    /\ c.cached = inst
    /\ c.st = StoredBefore(inst, c, Len(c.ops) + 1)

C28_AsyncDeprovision ==
    \A in \in HandlerInputs :
        LET c == ReconcileRun(in)
            response == DeprovisionResponse(in.reaction)
        IN  (/\ inst.exists /\ inst.deleting
             /\ Called(c, "DeprovisionInstance", {"async"})
             /\ in.failedWrite = 0)
                => /\ response.operationKey \notin {Nil, ""}
                        => c.st.lastOperation = response.operationKey
                   /\ c.st.async
                   /\ ReadyFalseBecause(c.st, asyncDeprovisioningReason)
                   /\ ~ReadyFalseBecause(c.st, successDeprovisionReason)
                   /\ QCanGet(PollingQueueAfter(c))

\* C29: after a reconciliation whose catalog fetch and catalog sync succeed,
\* the stored status has no OperationStartTime, Ready=True and
\* ReconciledGeneration = Generation, also when the broker entered the
\* reconciliation with an OperationStartTime left by an earlier failure.
\* (Stated of the runs whose writes the store accepts.)
C29_SuccessClearsStartTime ==
    \A in \in BrokerInputs :
        LET c == BrokerRun(in)
        IN  (FetchedCatalog(c) /\ in.step = "ok" /\ in.failedWrite = 0)
                => /\ c.st.operationStartTime = NilTime
                   /\ HasCondition(c.st, ServiceBrokerConditionReady, ConditionTrue)
                   /\ c.st.reconciledGeneration = c.st.generation

\* C30: after the first failed catalog fetch (no OperationStartTime before
\* the reconciliation) the stored status holds both Ready=False with reason
\* ErrorFetchingCatalog and an OperationStartTime, the write of the start
\* time not erasing the condition written before it, and the reconciliation
\* returns an error. (Stated of the runs whose writes the store accepts.)
C30_FirstFailureRecorded ==
    \A in \in BrokerInputs :
        LET c == BrokerRun(in)
        IN  (FetchFailed(c) /\ broker.operationStartTime = NilTime /\ in.failedWrite = 0)
                => /\ ReadyFalseBecause(c.st, errorFetchingCatalogReason)
                   /\ c.st.operationStartTime # NilTime
                   /\ c.ret = "err"

--------------------------------------------------------------------------
\* One service broker and a store that holds service classes and service
\* plans of this broker and of another broker.

\* The service classes of the store: none, or the class of this broker or
\* of the other broker.
StoredClasses ==
    {{}} \cup {{[name |-> "class1", externalID |-> "class1", owner |-> o, description |-> o]} :
                  o \in {BrokerName, OtherBrokerName}}

\* The service plans of the store: any of the plans, each of this broker or
\* of the other broker; all are plans of the one class.
StoredPlans ==
    LET plan(n, o) == [name |-> n, externalID |-> n, owner |-> o, class |-> "class1",
                       description |-> o]
        plansNamed(n) == {{}} \cup {{plan(n, o)} : o \in {BrokerName, OtherBrokerName}}
    IN  {p1 \cup p2 : p1 \in plansNamed("plan1"), p2 \in plansNamed("plan2")}

\* A user has created the broker; the store holds classes and plans left by
\* earlier catalog syncs of the brokers.
CatalogInit ==
    /\ QueueIdle
    /\ InstanceIdle
    /\ broker = NewBroker([relistBehavior |-> ServiceBrokerRelistBehaviorDuration,
                           relistDuration |-> 1])
    /\ \E classes \in StoredClasses, plans \in StoredPlans :
          catalog = [classes |-> classes, plans |-> plans]

CatalogNext ==
    \/ \E in \in BrokerInputs : ReconcileBroker(in)
    \/ BrokerDelete
    \/ BrokerStoreRemove

SpecCatalog == CatalogInit /\ [][CatalogNext]_vars

\* The classes of the store that name the broker, and the plans of a class.
OwnedClasses(cat) == {k \in cat.classes : k.owner = BrokerName}
PlansOf(cat, class) == {p \in cat.plans : p.class = class.name}

\* The broker is being deleted and holds the service-catalog finalizer.
BrokerFinalizing ==
    broker.exists /\ broker.deleting /\ FinalizerServiceCatalog \in broker.finalizers

\* The i-th operation of the run deleted `obj` or found it already absent.
DeletedAt(c, i, what, obj) ==
    c.ops[i].op = "delete" /\ c.ops[i].what = what /\ c.ops[i].res = obj.name

\* C31: the order of a broker deletion. In a reconciliation of a broker with
\* a deletion timestamp and the service-catalog finalizer, every plan of a
\* class of the broker is deleted before the class, and a status without the
\* finalizer is submitted only after every class of the broker and every
\* plan of such a class was deleted or found absent; a deleted broker without
\* the finalizer has no class left in the store.
C31_DeletionOrder ==
    /\ BrokerFinalizing =>
          \A in \in BrokerInputs :
              LET c == BrokerRun(in)
              IN  /\ \A i \in 1..Len(c.ops), k \in OwnedClasses(catalog) :
                         DeletedAt(c, i, "ServiceClasses", k)
                             => \A p \in PlansOf(catalog, k) :
                                    \E j \in 1..(i - 1) : DeletedAt(c, j, "ServicePlans", p)
                  /\ \A w \in Writes(c) :
                         FinalizerServiceCatalog \notin c.ops[w].obj.finalizers
                             => \A k \in OwnedClasses(catalog) :
                                    /\ \E i \in 1..(w - 1) : DeletedAt(c, i, "ServiceClasses", k)
                                    /\ \A p \in PlansOf(catalog, k) :
                                           \E j \in 1..(w - 1) : DeletedAt(c, j, "ServicePlans", p)
    /\ (broker.deleting /\ FinalizerServiceCatalog \notin broker.finalizers)
          => OwnedClasses(catalog) = {}

\* A deleted broker with its class and two plans of the class in the store:
\* a reconciliation deletes the plans and the class and removes the
\* finalizer.
C31_Witness ==
    /\ BrokerFinalizing
    /\ \E k \in OwnedClasses(catalog) : Cardinality(PlansOf(catalog, k)) = 2
    /\ \E in \in BrokerInputs :
          LET c == BrokerRun(in)
          IN  /\ c.st.finalizers = {}
              /\ Cardinality({i \in Deletes(c) : c.ops[i].what = "ServicePlans"}) = 2
              /\ OwnedClasses(CatalogAfter(c)) = {}

\* A list or delete step of the deletion fails with an error other than
\* NotFound in the run with input `in`.
DeletionStepFails(in) ==
    \/ in.step = "listClassesErr"
    \/ in.step \in {"listPlansErr", "deleteClassErr"} /\ OwnedClasses(catalog) # {}
    \/ in.step = "deletePlanErr"
          /\ \E k \in OwnedClasses(catalog) : PlansOf(catalog, k) # {}

\* C32: the errors of a broker deletion. A NotFound answer to the delete of
\* a plan or class counts as success and the deletion goes on to remove the
\* finalizer; any other list or delete error ends the reconciliation with
\* an error, leaves the stored status with Ready=Unknown and leaves the
\* finalizer in place. (The stored status: of the runs whose writes the
\* store accepts.)
C32_DeletionErrors ==
    BrokerFinalizing =>
        \A in \in BrokerInputs :
            LET c == BrokerRun(in)
            IN  /\ (in.step \in {"deletePlanNotFound", "deleteClassNotFound"}
                        /\ in.failedWrite = 0)
                       => /\ c.ret = "nil"
                          /\ FinalizerServiceCatalog \notin c.st.finalizers
                          /\ OwnedClasses(CatalogAfter(c)) = {}
                /\ DeletionStepFails(in)
                       => /\ c.ret = "err"
                          /\ FinalizerServiceCatalog \in c.st.finalizers
                          /\ in.failedWrite = 0
                                => HasCondition(c.st, ServiceBrokerConditionReady,
                                                ConditionUnknown)

\* The classes and plans of the store that have the name (the ID) of a
\* class or plan of the broker's catalog and belong to another broker.
ForeignClasses ==
    {k \in catalog.classes :
        k.owner # BrokerName /\ \E n \in convertCatalog.classes : n.name = k.name}
ForeignPlans ==
    {p \in catalog.plans :
        p.owner # BrokerName /\ \E n \in convertCatalog.plans : n.name = p.name}

\* C33: catalog ownership. Every service class and every service plan of
\* the store is owned by exactly one broker (no name is stored twice), and a
\* reconciliation that fetches a catalog holding the ID of a class or plan
\* that exists under a different broker returns an error, leaves
\* Ready=False with reason ErrorSyncingCatalog and leaves that class or plan
\* as it was. (The stored status: of the runs whose writes the store
\* accepts.)
C33_CatalogOwnership ==
    /\ \A k1, k2 \in catalog.classes : k1.name = k2.name => k1 = k2
    /\ \A p1, p2 \in catalog.plans : p1.name = p2.name => p1 = p2
    /\ \A in \in BrokerInputs :
          LET c == BrokerRun(in)
          IN  (/\ FetchedCatalog(c) /\ in.step = "ok"
               /\ ForeignClasses \cup ForeignPlans # {})
                  => /\ c.ret = "err"
                     /\ in.failedWrite = 0
                           => ReadyFalseBecause(c.st, errorSyncingCatalogReason)
                     /\ ForeignClasses \subseteq CatalogAfter(c).classes
                     /\ ForeignPlans \subseteq CatalogAfter(c).plans

\* C34: setting a broker condition of a type that a non-empty condition
\* list does not hold appends it with LastTransitionTime = now; setting
\* Failed=True on a broker that has a Ready condition leaves both conditions
\* in the stored status. (Stated of the runs whose writes the store
\* accepts.)
C34_NewTypeAppended ==
    \A conditionType \in {ServiceBrokerConditionReady, ServiceBrokerConditionFailed},
       status \in ConditionStatuses, in \in RelistInputs :
        LET c == updateClusterServiceBrokerCondition(NewRun(broker), broker,
                     conditionType, status, errorReconciliationRetryTimeoutReason,
                     errorReconciliationRetryTimeoutReason, in, now)
            appended == [type |-> conditionType, status |-> status,
                         reason |-> errorReconciliationRetryTimeoutReason,
                         message |-> errorReconciliationRetryTimeoutReason,
                         lastTransitionTime |-> now]
        IN  (/\ broker.exists
             /\ broker.conditions # <<>>
             /\ BrokerConditionIndex(broker, conditionType) = 0)
                => c.st.conditions = Append(broker.conditions, appended)

--------------------------------------------------------------------------
\* One service instance from its creation to its deletion: provisioned
\* synchronously or asynchronously or rejected by the broker, polled, and
\* deleted by the user at any moment.

\* The reconciliations that bring the instance to its states: the lookups
\* succeed, the store accepts the writes, and the broker answers with a
\* synchronous success (a poll: succeeded or failed), with an asynchronous
\* response (a poll: in progress) or with an HTTP error.
LifecycleInputs == {in \in PollInputs : in.reaction \in {"r1", "r2", "r4", "r5"}}

LifecycleInit ==
    /\ QueueIdle
    /\ inst = NewInstance("valid", {FinalizerServiceCatalog})
    /\ pollingQueue = NewQueue
    /\ now = 1
    /\ pollFailsLeft = MaxPollFails
    /\ provOK = FALSE
    /\ deprov = "none"
    /\ BrokerIdle

LifecycleNext ==
    \/ \E in \in LifecycleInputs : ReconcileInstance(in)
    \/ \E in \in LifecycleInputs : PollWorker(in)
    \/ PollTimerFire
    \/ UserDelete
    \/ StoreRemove

SpecLifecycle == LifecycleInit /\ [][LifecycleNext]_vars

\* C35: when a poll returns the state failed, the run returns nil and
\* submits one status, which has AsyncOpInProgress false, the finalizers of
\* the instance, and Ready False with reason ProvisionCallFailed if the
\* instance is not being deleted, Ready Unknown with reason
\* DeprovisionCallFailed if it is; the finalizer of a deleted instance stays.
C35_RunPollFailed(c) ==
    Called(c, "PollLastOperation", {"failed"})
        => /\ c.ret = "nil"
           /\ Cardinality(Writes(c)) = 1
           /\ \A i \in Writes(c) :
                 LET obj == c.ops[i].obj
                 IN  /\ ~obj.async
                     /\ obj.finalizers = inst.finalizers
                     /\ IF inst.deleting
                        THEN /\ HasCondition(obj, InstanceConditionReady, ConditionUnknown)
                             /\ obj.conditions[IndexOfType(obj.conditions, InstanceConditionReady)].reason
                                    = "DeprovisionCallFailed"
                        ELSE ReadyFalseBecause(obj, "ProvisionCallFailed")
           /\ c.st.finalizers = inst.finalizers

C35_PollFailed == EveryRun(C35_RunPollFailed)

\* A deleted instance with its finalizer and an operation in progress,
\* its key in the polling queue: the poll reports the state failed and
\* Ready becomes Unknown.
C35_Witness ==
    /\ inst.exists /\ inst.async /\ inst.deleting
    /\ FinalizerServiceCatalog \in inst.finalizers
    /\ QCanGet(pollingQueue)
    /\ \E in \in HandlerInputs :
          /\ Called(PollRun(in), "PollLastOperation", {"failed"})
          /\ HasCondition(PollRun(in).st, InstanceConditionReady, ConditionUnknown)
          /\ ~PollRun(in).st.async

\* The poll call of the run failed, and not with Gone on a deleted instance.
PollCallFailed(c) ==
    \/ Called(c, "PollLastOperation", {"httpError", "error"})
    \/ Called(c, "PollLastOperation", {"gone"}) /\ ~inst.deleting

\* C36: when the poll call fails with an error other than Gone during a
\* deletion (Gone on an instance that is not being deleted included), the
\* run submits no status, so AsyncOpInProgress stays true and the
\* finalizers stay as they are, records exactly one event, a warning with
\* reason ErrorPollingLastOperation, and returns the error.
C36_RunPollCallFailed(c) ==
    PollCallFailed(c)
        => /\ Writes(c) = {}
           /\ c.st = inst
           /\ NumOps(c, "event") = 1
           /\ \A i \in 1..Len(c.ops) :
                 c.ops[i].op = "event"
                     => c.ops[i].what = "ErrorPollingLastOperation" /\ c.ops[i].res = "Warning"
           /\ c.ret = "err"

C36_PollCallFailed == EveryRun(C36_RunPollCallFailed)

\* An instance that is being provisioned asynchronously, its key in the
\* polling queue: the poll call can fail with Gone or with another error,
\* and the operation stays in progress.
C36_Witness ==
    /\ inst.exists /\ inst.async /\ ~inst.deleting
    /\ QCanGet(pollingQueue)
    /\ \E in \in HandlerInputs :
          /\ Called(PollRun(in), "PollLastOperation", {"gone"})
          /\ PollRun(in).ret = "err" /\ PollRun(in).st.async
    /\ \E in \in HandlerInputs :
          /\ Called(ReconcileRun(in), "PollLastOperation", {"httpError"})
          /\ ReconcileRun(in).ret = "err" /\ ReconcileRun(in).st.async

\* A provisioned instance that has not failed, with a deletion timestamp,
\* its finalizer and no operation in progress.
DeletedProvisioned ==
    /\ inst.exists /\ inst.deleting
    /\ FinalizerServiceCatalog \in inst.finalizers
    /\ inst.checksum # NilChecksum
    /\ ~isInstanceFailed(inst)
    /\ ~inst.async

\* The broker calls, store reads and status writes of a run, in order.
RECURSIVE Steps(_, _)
Steps(c, i) ==
    IF i = 0 THEN <<>>
    ELSE IF c.ops[i].op \in {"call", "get", "write"}
    THEN Append(Steps(c, i - 1), c.ops[i])
    ELSE Steps(c, i - 1)

\* C37: for a provisioned, non-failed instance with a deletion timestamp
\* and no operation in progress, a synchronous deprovision success makes
\* exactly one DeprovisionInstance call, then a status write with
\* Ready=False and reason DeprovisionedSuccessfully, then a fresh read of the
\* instance, then a write of the instance read without the finalizer, in
\* this order; when the status write fails, nothing follows it and the
\* finalizer stays.
C37_SyncDeprovision ==
    DeletedProvisioned =>
        \A in \in HandlerInputs :
            LET c == ReconcileRun(in)
                steps == Steps(c, Len(c.ops))
            IN  Called(c, "DeprovisionInstance", {"sync"})
                    => /\ Len(steps) >= 2
                       /\ steps[1].op = "call" /\ steps[1].what = "DeprovisionInstance"
                       /\ steps[2].op = "write"
                       /\ ReadyFalseBecause(steps[2].obj, "DeprovisionedSuccessfully")
                       /\ FinalizerServiceCatalog \in steps[2].obj.finalizers
                       /\ IF steps[2].ok
                          THEN /\ Len(steps) = 4
                               /\ steps[3].op = "get"
                               /\ steps[3].obj = steps[2].obj
                               /\ steps[4].op = "write"
                               /\ steps[4].obj.finalizers
                                      = steps[3].obj.finalizers \ {FinalizerServiceCatalog}
                               /\ steps[4].obj.conditions = steps[3].obj.conditions
                               /\ c.ret = IF steps[4].ok THEN "nil" ELSE "err"
                          ELSE /\ Len(steps) = 2
                               /\ c.ret = "err"
                               /\ FinalizerServiceCatalog \in c.st.finalizers

\* Such an instance whose deprovisioning succeeds synchronously, with a
\* store that accepts the writes and with one that rejects the status write.
C37_Witness ==
    /\ DeletedProvisioned
    /\ \E in \in HandlerInputs :
          /\ Called(ReconcileRun(in), "DeprovisionInstance", {"sync"})
          /\ ReconcileRun(in).st.finalizers = {}
    /\ \E in \in HandlerInputs :
          /\ Called(ReconcileRun(in), "DeprovisionInstance", {"sync"})
          /\ in.failedWrite = 1
          /\ ReconcileRun(in).ret = "err"

\* C38: when the deprovision call fails, with an HTTP error or another
\* error, the run submits one status, with Ready=Unknown and reason
\* DeprovisionCallFailed, without a Failed condition and with the finalizer
\* in it, records a warning event and returns the error, so that the key is
\* retried; the finalizer stays in the store.
C38_RunDeprovisionFailed(c) ==
    Called(c, "DeprovisionInstance", {"httpError", "error"})
        => /\ c.ret = "err"
           /\ Cardinality(Writes(c)) = 1
           /\ \A i \in Writes(c) :
                 LET obj == c.ops[i].obj
                 IN  /\ HasCondition(obj, InstanceConditionReady, ConditionUnknown)
                     /\ obj.conditions[IndexOfType(obj.conditions, InstanceConditionReady)].reason
                            = "DeprovisionCallFailed"
                     /\ IndexOfType(obj.conditions, InstanceConditionFailed) = 0
                     /\ FinalizerServiceCatalog \in obj.finalizers
           /\ FinalizerServiceCatalog \in c.st.finalizers
           /\ IndexOfType(c.st.conditions, InstanceConditionFailed) = 0
           /\ NumOps(c, "event") = 1

C38_DeprovisionFailed ==
    \A in \in HandlerInputs : C38_RunDeprovisionFailed(ReconcileRun(in))

\* A provisioned instance that is being deleted: the deprovision call can
\* fail with an HTTP error and with a transport error, and Ready becomes
\* Unknown.
C38_Witness ==
    /\ DeletedProvisioned
    /\ \E in \in HandlerInputs :
          /\ Called(ReconcileRun(in), "DeprovisionInstance", {"httpError"})
          /\ HasCondition(ReconcileRun(in).st, InstanceConditionReady, ConditionUnknown)
    /\ \E in \in HandlerInputs :
          /\ Called(ReconcileRun(in), "DeprovisionInstance", {"error"})
          /\ HasCondition(ReconcileRun(in).st, InstanceConditionReady, ConditionUnknown)

\* A deleted instance with its finalizer and a Failed condition with status
\* True.
DeletedFailed ==
    /\ inst.exists /\ inst.deleting
    /\ FinalizerServiceCatalog \in inst.finalizers
    /\ isInstanceFailed(inst)
    /\ ~inst.async

\* The instance with each status checksum: unset, that of its spec, and
\* that of an earlier spec.
ChecksumVariants(instance) ==
    {[instance EXCEPT !.checksum = ck] :
        ck \in {NilChecksum, InstanceSpecChecksum(instance.spec), <<0, "valid">>}}

\* The lookups of the class, the plan and the broker fail.
LookupFails(in) == in.lookup \in {"noClass", "noPlan", "noBroker", "authErr", "clientErr"}

--------------------------------------------------------------------------
\* setInstanceCondition and the other conditions of the list

\* No two conditions of the list have the same type.
UniqueTypes(conds) ==
    \A i, j \in 1..Len(conds) : conds[i].type = conds[j].type => i = j

\* C40: every call of setInstanceCondition(type, status, reason, message) on
\* the current condition list leaves every condition of another type with
\* its fields at its position, changes one condition of the given type in
\* place when there is one and appends a condition of that type at the end
\* when there is none, and a list with at most one condition per type, as
\* the empty list is, has at most one condition per type afterwards.
C40_OtherConditionsKept ==
    \A conditionType \in ConditionTypes, status \in ConditionStatuses,
       reason \in Reasons, message \in Messages :
        LET old == inst.conditions
            new == setInstanceConditionInternal(inst, conditionType, status,
                                                reason, message, now).conditions
            i == IndexOfType(old, conditionType)
        IN  /\ Len(new) >= Len(old)
            /\ \A j \in 1..Len(old) : old[j].type # conditionType => new[j] = old[j]
            /\ IF i = 0
               THEN /\ Len(new) = Len(old) + 1
                    /\ SubSeq(new, 1, Len(old)) = old
                    /\ new[Len(new)].type = conditionType
               ELSE /\ Len(new) = Len(old)
                    /\ new[i].type = conditionType
                    /\ \A j \in 1..Len(old) : j # i => new[j] = old[j]
            /\ UniqueTypes(old)
                  => UniqueTypes(new) /\ Len(new) <= Cardinality(ConditionTypes)

\* A list with one condition per type, both set by calls, the second after
\* the first: a call for the type of the first changes it in place before
\* the second, and a call for the type of the second leaves the first.
C40_Witness ==
    /\ Len(inst.conditions) = 2
    /\ UniqueTypes(inst.conditions)
    /\ inst.conditions[1].reason = "r1" /\ inst.conditions[2].reason = "r1"
    /\ inst.conditions[1].lastTransitionTime >= 1
    /\ inst.conditions[2].lastTransitionTime > inst.conditions[1].lastTransitionTime
    /\ \E status \in ConditionStatuses :
          LET new == setInstanceConditionInternal(inst, inst.conditions[1].type, status,
                                                  "r0", "m0", now).conditions
          IN  /\ status # inst.conditions[1].status
              /\ new[1].status = status
              /\ new[2] = inst.conditions[2]

====
